---- MODULE Spec2Model ----
(***************************************************************************)
(* A model of the CHIP-8 engine of src/src/chip8.rs: the Chip8 struct, its *)
(* constructor Chip8::init and the per-frame entry point Chip8::run, one   *)
(* action per opcode handler, together with the host's key events of       *)
(* src/src/main.rs.                                                        *)
(*                                                                         *)
(* Rust integer arithmetic is modelled with its width.  An overflowing     *)
(* `+`, `-` or `+=` panics when the build has overflow checks (the dev     *)
(* profile) and wraps when it has none (the release profile); the profile  *)
(* is the variable overflow_checks, chosen once per session.  An array or  *)
(* slice index out of range panics in both profiles.                       *)
(***************************************************************************)
EXTENDS Integers, Sequences, FiniteSets, TLC

----------------------------------------------------------------------------
(* Constants of chip8.rs *)

FLAGS_REGISTER == 15
FRAME_BUFFER_WIDTH == 64
FRAME_BUFFER_HEIGHT == 32
MAX_RAM_ADDRESS == 3744
SPRITE_WIDTH == 8
STACK_LEN == 12
PROGRAM_START == 512
SAMPLES_PER_FRAME == 800
FRAME_RATE == 60

U32_DIV_FRAME_RATE == 71582788
U32_MOD_FRAME_RATE == 16
U8 == 256
U16 == 65536

FONTS ==
    << 240, 144, 144, 144, 240,   32,  96,  32,  32, 112,
       240,  16, 240, 128, 240,  240,  16, 240,  16, 240,
       144, 144, 240,  16,  16,  240, 128, 240,  16, 240,
       240, 128, 240, 144, 240,  240,  16,  32,  64,  64,
       240, 144, 240, 144, 240,  240, 144, 240,  16, 240,
       240, 144, 240, 144, 144,  224, 144, 224, 144, 224,
       240, 128, 128, 128, 240,  224, 144, 144, 144, 224,
       240, 128, 240, 128, 240,  240, 128, 240, 128, 128 >>

(* The values run() returns *)
NoFault == "None"
PcFaultMsg == "Invalid program counter address!"
StackUnderflowMsg == "Stack underflow on function return!"
StackOverflowMsg == "Stack overflow on function call!"
UnsupportedMsg == "Unsupported opcode!"
DrawFaultMsg == "Invalid memory access in draw!"
BcdFaultMsg == "Invalid memory access in BCD store!"
StoreFaultMsg == "Invalid memory access in store!"
LoadFaultMsg == "Invalid memory access in load!"
FaultMsgs ==
    { PcFaultMsg, StackUnderflowMsg, StackOverflowMsg, UnsupportedMsg,
      DrawFaultMsg, BcdFaultMsg, StoreFaultMsg, LoadFaultMsg }

(* Default colours of config.rs *)
DEFAULT_BACKGROUND == <<0, 0, 0, 255>>
DEFAULT_FOREGROUND == <<255, 255, 255, 255>>

----------------------------------------------------------------------------
(* Bounds of the model *)

MaxFrames == 4
MaxKeyEvents == 2
TimerFrames == 8

ClockFrames == 61

----------------------------------------------------------------------------
(* Byte arithmetic *)

RandomBytes == {0, 1, 85, 128, 255}

Bit(v, i) == (v \div (2 ^ i)) % 2

BitAnd(a, b) ==
    LET f[i \in 0..8] ==
            IF i = 8 THEN 0 ELSE (Bit(a, i) * Bit(b, i)) * (2 ^ i) + f[i + 1]
    IN  f[0]

BitOr(a, b) ==
    LET f[i \in 0..8] ==
            IF i = 8 THEN 0
            ELSE (IF Bit(a, i) + Bit(b, i) > 0 THEN 2 ^ i ELSE 0) + f[i + 1]
    IN  f[0]

BitXor(a, b) ==
    LET f[i \in 0..8] ==
            IF i = 8 THEN 0
            ELSE ((Bit(a, i) + Bit(b, i)) % 2) * (2 ^ i) + f[i + 1]
    IN  f[0]

----------------------------------------------------------------------------
(* Programs: a ROM is a sequence of bytes, written here as 16-bit words *)

WordBytes(ws) ==
    [i \in 1..(2 * Len(ws)) |->
        IF i % 2 = 1 THEN ws[(i + 1) \div 2] \div 256 ELSE ws[i \div 2] % 256]

(* Instruction words *)
W(op0, x, y, n) == op0 * 4096 + x * 256 + y * 16 + n
WK(op0, x, kk) == op0 * 4096 + x * 256 + kk
WA(op0, nnn) == op0 * 4096 + nnn

ByteSamples == {0, 1, 2, 127, 128, 254, 255}

(* Every fault kind, each after a prelude that makes the registers non-zero *)
Prelude == << WK(6, 0, 7), WK(6, 15, 1) >>

FaultRoms ==
    { Prelude \o t : t \in
        { << WA(1, 513) >>,                       \* JP to an odd address
          << WA(1, 3744) >>,                      \* JP to capacity
          << WA(1, 3742), 0 >>,                   \* run off the end of RAM
          << WA(1, 256) >>,                       \* JP below the program area
          << WA(1, 0) >>, << WA(1, 1) >>,         \* JP 0, JP 1
          << WA(11, 0) >>,                        \* JP V0, 0
          << WA(2, 0) >>,                         \* CALL 0
          << 238 >>,                              \* RET on an empty stack
          << WA(2, 516) >>,                       \* CALL itself until the stack is full
          << WA(10, 3743), W(13, 0, 0, 2) >>,     \* sprite past the end of RAM
          << W(13, 0, 0, 0) >>,                   \* empty sprite at I = 0
          << WA(10, 3745), W(13, 0, 0, 0) >>,     \* empty sprite beyond RAM
          << WK(15, 0, 51) >>,                    \* BCD below the program area
          << WA(10, 3742), WK(15, 0, 51) >>,      \* BCD past the end of RAM
          << WK(15, 0, 85) >>,                    \* store below the program area
          << WA(10, 3743), WK(15, 1, 85) >>,      \* store past the end of RAM
          << WA(10, 3743), WK(15, 1, 101) >> } }  \* load past the end of RAM

(* Words with no handler of their own, and the SYS words *)
OddWords ==
    { 1, 291, 225, 4095,
      W(5, 0, 1, 1), W(5, 0, 1, 15), W(9, 0, 1, 1), W(9, 0, 1, 14),
      W(8, 0, 1, 8), W(8, 0, 1, 9), W(8, 0, 1, 10), W(8, 0, 1, 11),
      W(8, 0, 1, 12), W(8, 0, 1, 13), W(8, 0, 1, 15),
      WK(14, 0, 0), WK(14, 0, 159), WK(14, 0, 160), WK(14, 0, 255),
      WK(15, 0, 0), WK(15, 0, 8), WK(15, 0, 86), WK(15, 0, 117), WK(15, 0, 255) }

OddWordRoms == { Prelude \o << w >> : w \in OddWords }

(* One of each instruction after loading V0, V1 and I *)
PlainWords ==
    { 224, W(8, 0, 1, 0), W(8, 0, 1, 1), W(8, 0, 1, 2), W(8, 0, 1, 3),
      W(8, 0, 1, 4), W(8, 0, 1, 5), W(8, 0, 1, 6), W(8, 0, 1, 7), W(8, 0, 1, 14),
      WK(6, 2, 9), WK(7, 0, 2), WA(10, 1), WK(12, 0, 255), WK(12, 3, 15),
      W(13, 0, 1, 5), W(13, 1, 0, 15), W(13, 0, 0, 0),
      WK(15, 0, 7), WK(15, 0, 10), WK(15, 0, 21), WK(15, 0, 24), WK(15, 1, 24),
      WK(15, 0, 30), WK(15, 0, 41), WK(15, 0, 51), WK(15, 1, 85), WK(15, 1, 101),
      WK(3, 0, 255), WK(3, 0, 1), WK(4, 0, 255), WK(4, 0, 1),
      W(5, 0, 1, 0), W(5, 0, 0, 0), W(9, 0, 1, 0), W(9, 0, 0, 0),
      WK(14, 0, 158), WK(14, 0, 161), WK(14, 1, 158), WK(14, 1, 161) }

PlainRoms ==
    { << WK(6, 0, ab[1]), WK(6, 1, ab[2]), WA(10, 768), w >> :
        ab \in { <<255, 2>>, <<1, 1>>, <<60, 30>> }, w \in PlainWords }

(* 7xkk on sample bytes, with VF loaded first *)
AddRoms ==
    { << WK(6, 15, 9), WK(6, x, a), WK(7, x, kk) >> :
        x \in {0, 5, 15}, a \in ByteSamples, kk \in ByteSamples }
    \cup { << WK(6, 0, 255), WK(7, 0, 1), WK(6, 15, 0) >> }

(* Subroutines nested to the depth of the stack *)
NestRom ==
    << WA(2, 516), WA(1, 514) >>
    \o [i \in 1..22 |->
            IF i % 2 = 1 THEN WA(2, 516 + 2 * (i + 1)) ELSE 238]
    \o << 238 >>

CallRoms ==
    { NestRom,
      << WA(2, 518), WK(6, 1, 1), WA(1, 516), WK(6, 2, 2), WA(2, 526), 238, 0, WK(6, 3, 3), 238 >>,
      << WA(2, 512) >> }

(* I raised near the top of its range by repeated Fx1E, then used *)
HighIndexRoms ==
    { << WK(6, 0, 255), WK(6, 1, 240), WA(10, 4095),
         WK(15, 0, 30), WK(7, 1, 255), WK(3, 1, 0), WA(1, 518),
         WK(6, 0, k), WK(15, 0, 30), w >> :
        k \in {226, 239, 240},
        w \in { WK(15, 0, 51), WK(15, 1, 85), WK(15, 1, 101), W(13, 0, 0, 1),
                WK(15, 0, 30) } }

(* 8xy4, 8xy5 and 8xy7 on sample bytes, with x and y apart, equal, and F *)
ArithRoms ==
    { << WK(6, xy[1], a), WK(6, xy[2], b), W(8, xy[1], xy[2], op) >> :
        xy \in { <<0, 1>>, <<0, 15>>, <<3, 3>>, <<15, 1>>, <<15, 15>> },
        a \in ByteSamples, b \in ByteSamples, op \in {4, 5, 7} }

(* The logic operations and the shifts on sample bytes, VF loaded first *)
FlagSamples == {0, 1, 6, 129, 255}

FlagRoms ==
    { << WK(6, 15, 9), WK(6, xy[1], a), WK(6, xy[2], b), W(8, xy[1], xy[2], op) >> :
        xy \in { <<0, 1>>, <<0, 15>>, <<3, 3>>, <<15, 1>>, <<15, 15>> },
        a \in FlagSamples, b \in FlagSamples, op \in {1, 2, 3, 6, 14} }

(* The same sprite drawn three times: at the origin, at the right and bottom
   edges and beyond them; the sprite is a font glyph (I = 0), blank (I = 0x50)
   or the program's own bytes (I = 0x200); the last two draw with VF as a
   coordinate register *)
DrawRoms ==
    { << WK(6, 0, x), WK(6, 1, y), WA(10, a), W(13, 0, 1, n), W(13, 0, 1, n), W(13, 0, 1, n) >> :
        x \in {0, 60, 63, 124}, y \in {0, 30, 31, 33}, a \in {0, 80, 512}, n \in {0, 1, 5, 15} }
    \cup { << WK(6, 15, 9), WK(6, 1, 3), WA(10, 0), W(13, 15, 1, 5), W(13, 15, 1, 5) >>,
           << WK(6, 15, 9), WK(6, 1, 3), WA(10, 0), W(13, 1, 15, 5), W(13, 1, 15, 5) >> }

(* A glyph drawn, the display cleared with registers, I and a timer loaded,
   and the glyph drawn again *)
ClearRoms ==
    { << WK(6, 0, 2), WK(6, 15, 9), WK(15, 0, 21), WA(10, 0), W(13, 0, 0, 5),
         224, W(13, 0, 0, 5) >> }

(* V0 and Vx stored at 0x300 by Fx55, the registers overwritten, and the
   same bytes loaded back by Fx65, for x = 1 (V2 stays out of it) and x = F *)
RoundTripRoms ==
    { << WK(6, 0, a), WK(6, x, b), WK(6, 2, 7), WA(10, 768), WK(15, x, 85),
         WK(6, 0, 17), WK(6, x, 34), WK(6, 2, 51), WA(10, 768), WK(15, x, 101) >> :
        a \in {0, 1, 255}, b \in {0, 1, 255}, x \in {1, 15} }

(* Fx33 of every byte value at 0x300, with V1 and VF loaded, and then a wait *)
BcdRoms ==
    { << WK(6, 1, 7), WK(6, 15, 9), WK(6, 0, v), WA(10, 768), WK(15, 0, 51),
         WK(15, 2, 10) >> : v \in 0..255 }

(* Fx18 twice in a row behind 0, 3 or 7 other instructions, so that it runs
   at different cycles of a frame and after different remainders *)
SoundRoms ==
    { << WK(6, 0, v) >> \o [i \in 1..p |-> WK(6, 1, i)]
        \o << WK(15, 0, 24), WK(15, 0, 24), WK(15, 2, 10) >> :
        v \in {0, 1, 2, 255}, p \in {0, 3, 7} }

(* Fx18 with 2 and with 3, then an Fx0A that no key ends: two engine writes
   of the sample counter and frames that write nothing *)
AudioRoms ==
    { << WK(6, 0, 2), WK(15, 0, 24), WK(6, 0, 3), WK(15, 0, 24), WK(15, 0, 10) >> }

(* A fault at the very first instruction *)
FirstFaultRoms == { << 238 >>, << W(5, 0, 1, 1) >>, << WA(1, 513) >>, << WK(15, 0, 51) >> }

(* JP 0x200 alone *)
SpinRom == << WA(1, 512) >>

(* Fx0A alone: with no key touched, every frame ends at its first cycle *)
WaitRom == << WK(15, 0, 10) >>

(* Fx15 and Fx18 with a value, then Fx07 in a loop, behind an Fx0A that no key
   ends, or with a second Fx15 in the loop *)
TimerValues == {0, 1, 2, 3, 255}

TimerRoms ==
    { << WK(6, 0, v), WK(15, 0, 21), WK(15, 0, 24), WK(15, 1, 7), WA(1, 518) >> :
        v \in TimerValues }
    \cup { << WK(6, 0, v), WK(15, 0, 21), WK(15, 2, 10), WK(15, 1, 7) >> :
        v \in TimerValues }
    \cup { << WK(6, 0, 3), WK(15, 0, 21), WK(15, 1, 7), WK(15, 1, 21),
              WK(15, 2, 7), WA(1, 516) >> }

(* Fx0A first, and Fx0A behind another instruction and before another Fx0A *)
KeyRoms ==
    { << WK(15, 2, 10), WK(6, 1, 1) >>,
      << WK(6, 2, 7), WK(15, 2, 10), WK(15, 0, 10) >> }

(* Clock rates around the frame rate, and the u32 rates 2^32 - 1, 2^32 - 44,
   2^32 - 59 and 2^32 - 60 as i32 *)
ClockRates == {1, 7, 59, 60, 61, 119, 500, 1000}
HighClockRates == {-1, -44, -59, -60}

(* A session: the ROM and the configuration the engine is constructed with,
   the build and the keys the user touches *)
Sessions(roms, rates, syncs, keys) ==
    { [rom |-> WordBytes(r), clock_hz |-> hz, is_drawsync |-> ds,
       background_color |-> DEFAULT_BACKGROUND,
       foreground_color |-> DEFAULT_FOREGROUND,
       overflow_checks |-> oc, host_keys |-> hk, frame_limit |-> MaxFrames] :
        r \in roms, hz \in rates, ds \in syncs, oc \in BOOLEAN, hk \in keys }

(* The same sessions with the colours of -bg and -fg *)
Recolored(sessions, bg, fg) ==
    { [s EXCEPT !.background_color = bg, !.foreground_color = fg] : s \in sessions }

(* The same sessions run for n frames *)
Prolonged(sessions, n) ==
    { [s EXCEPT !.frame_limit = n] : s \in sessions }

(* The same sessions with the ROM file filled up to n bytes with bytes that
   are not 0 *)
Filled(bytes, n) ==
    [i \in 1..n |-> IF i <= Len(bytes) THEN bytes[i] ELSE 1 + (i % 255)]

Lengthened(sessions, lengths) ==
    { [s EXCEPT !.rom = Filled(s.rom, n)] : s \in sessions, n \in lengths }

(* File sizes around the 0xCA0 bytes that are free above 0x200 *)
RomLengths == {3231, 3232, 3233, 3300}

AllSessions ==
    Sessions(FaultRoms, {30, 60, 500}, BOOLEAN, {{}})
    \cup Sessions(OddWordRoms, {60}, {TRUE}, {{}})
    \cup Sessions(PlainRoms, {120}, BOOLEAN, {{}, {1}})
    \cup Sessions(AddRoms, {60}, {TRUE}, {{}})
    \cup Sessions(CallRoms, {240, 500}, {TRUE}, {{}})
    \cup Sessions(HighIndexRoms, {24000}, {TRUE}, {{}})
    \cup Sessions(FirstFaultRoms, {30, 60, 90}, {TRUE}, {{}})
    \cup Sessions({SpinRom, << >>}, {1, 30, 60, 500}, {TRUE}, {{}})
    \cup Prolonged(Sessions({SpinRom}, {1, 59, 61}, {TRUE}, {{}}), ClockFrames)
    \cup Lengthened(Sessions({SpinRom}, {60}, {TRUE}, {{}}), RomLengths)
    \cup Sessions(ArithRoms, {180}, {TRUE}, {{}})
    \cup Sessions(FlagRoms, {240}, {TRUE}, {{}})
    \cup Sessions(RoundTripRoms, {600}, {TRUE}, {{}})
    \cup Sessions(BcdRoms, {600}, {TRUE}, {{}})
    \cup Prolonged(Sessions(SoundRoms, {60, 96, 192, 500}, {TRUE}, {{}}), TimerFrames)
    \cup Sessions(ClearRoms, {240}, {FALSE}, {{}})
    \cup Recolored(Sessions(ClearRoms, {240}, {FALSE}, {{}}),
                    DEFAULT_FOREGROUND, DEFAULT_FOREGROUND)
    \cup Sessions(KeyRoms, {30, 60, 120}, {TRUE}, {{3, 9}})
    \cup Prolonged(Sessions(TimerRoms, {30, 60, 120}, {TRUE}, {{}}), TimerFrames)
    \cup Sessions(FirstFaultRoms, {60}, {TRUE}, {{1}})
    \cup Prolonged(Sessions({WaitRom}, ClockRates, {TRUE}, {{}}), ClockFrames)
    \cup Sessions({WaitRom}, HighClockRates, {TRUE}, {{}})
    \cup Sessions(DrawRoms, {240}, BOOLEAN, {{}})
    \cup Recolored(Sessions(DrawRoms, {240}, {TRUE}, {{}}),
                   DEFAULT_FOREGROUND, DEFAULT_FOREGROUND)

----------------------------------------------------------------------------
(* State *)

VARIABLES
    \* the fields of struct Chip8
    ram,                \* address -> byte; an address not in the domain holds 0
    frame_buffer,       \* pixel index -> its 4 bytes; a pixel not in the domain holds <<0,0,0,0>>
    stack,
    key_released,
    keyboard,
    remaining_samples,  \* <<>> is None, <<n>> is Some(n)
    clock_hz,
    clock_buffer,
    background_color,   \* the colour's to_le_bytes()
    foreground_color,
    is_drawsync,
    program_counter,
    index_register,
    stack_pointer,
    delay_timer,
    sound_timer,
    general_registers,
    \* the build and the host
    overflow_checks,    \* TRUE: the build panics on integer overflow; FALSE: it wraps
    host_keys,          \* the keys the user touches during the session
    frame_limit,        \* the number of frames the host runs
    \* the position inside run()
    phase,              \* "idle", "loop", "end" (left 'run_loop by break), "panicked", "rejected" (init returned Err)
    cycles,             \* the local `cycles` of run()
    cycle,              \* the loop variable `cycle`
    result,             \* what the last call of run() returned
    \* history
    outcome,            \* how the last loop iteration ended
    opcode,             \* the two bytes the last iteration fetched, <<>> if none
    before,             \* the machine as it was when the last iteration began
    frames,             \* number of calls of run()
    key_events,         \* number of host key events
    faults,             \* number of calls of run() that returned a fault
    calls,              \* the subroutine calls not yet returned from: <<address of the 2nnn, SP before it>>
    matched,            \* the entry of calls the last 00EE returned from, <<>> if none
    prev,               \* `before` of the iteration before the last, <<>> if none
    prev_opcode,        \* `opcode` of the iteration before the last
    entry,              \* the machine when the last call of run() began, and whether it was waiting on Fx0A
    budgets,            \* the `cycles` of every call of run() so far
    timer_set,          \* the last Fx15: <<value written, frames at the time>>, <<>> if none
    draws,              \* number of Dxyn that completed in the current call of run()
    audio,              \* the audio side: what Fx18 last wrote, the samples emitted since, the last callback
                        \* <<request, counter read, samples emitted>> and the number of callbacks
    rom                 \* the bytes Chip8::init read from rom_path

config_vars ==
    << clock_hz, background_color, foreground_color, is_drawsync,
       overflow_checks, host_keys, frame_limit, rom >>

(* The history a call of run() keeps, and the history an iteration keeps *)
call_trail == << entry, budgets >>
step_trail == << prev, prev_opcode >>

vars ==
    << ram, frame_buffer, stack, key_released, keyboard, remaining_samples,
       clock_hz, clock_buffer, background_color, foreground_color, is_drawsync,
       program_counter, index_register, stack_pointer, delay_timer, sound_timer,
       general_registers, overflow_checks, host_keys, phase, cycles, cycle,
       result, outcome, opcode, before, frames, key_events, faults, calls,
       matched, frame_limit, prev, prev_opcode, entry, budgets, timer_set,
       rom, draws, audio >>

(* The machine state an instruction can change, as a record *)
Machine ==
    [ ram |-> ram, frame_buffer |-> frame_buffer, stack |-> stack,
      key_released |-> key_released, keyboard |-> keyboard,
      remaining_samples |-> remaining_samples,
      program_counter |-> program_counter, index_register |-> index_register,
      stack_pointer |-> stack_pointer, delay_timer |-> delay_timer,
      sound_timer |-> sound_timer, general_registers |-> general_registers ]

RamByte(m, a) == IF a \in DOMAIN m THEN m[a] ELSE 0

RamStore(m, a, v) == [b \in (DOMAIN m) \cup {a} |-> IF b = a THEN v ELSE m[b]]

PixelBytes(fb, p) == IF p \in DOMAIN fb THEN fb[p] ELSE <<0, 0, 0, 0>>

(* The RAM image Chip8::init builds from a ROM *)
LoadImage(bytes) ==
    [a \in (0..(Len(FONTS) - 1)) \cup (PROGRAM_START..(PROGRAM_START + Len(bytes) - 1)) |->
        IF a < Len(FONTS) THEN FONTS[a + 1] ELSE bytes[a - PROGRAM_START + 1]]

(* Line 68 rejecting a ROM of exactly the free size as well *)
RomFits_Strict(bytes) == Len(bytes) < MAX_RAM_ADDRESS - PROGRAM_START

RomFits(bytes) == ~(Len(bytes) > MAX_RAM_ADDRESS - PROGRAM_START)

----------------------------------------------------------------------------
(* Decoding, lines 103-108: the opcode at program_counter and its fields *)

Byte0 == RamByte(ram, program_counter)
Byte1 == RamByte(ram, program_counter + 1)
Op0 == Byte0 \div 16
Op1 == Byte0 % 16
Op2 == Byte1 \div 16
Op3 == Byte1 % 16
X == Op1
Y == Op2
N == Op3
KK == Byte1
NNN == Op1 * 256 + Byte1

VX == general_registers[X]
VY == general_registers[Y]

(* PcInvalid without the alignment test *)
PcInvalid_NoAlign ==
    \/ program_counter < PROGRAM_START
    \/ program_counter >= MAX_RAM_ADDRESS

(* PcInvalid without the upper bound *)
PcInvalid_NoUpper ==
    \/ program_counter < PROGRAM_START
    \/ program_counter % 2 = 1

PcInvalid ==
    \/ program_counter < PROGRAM_START
    \/ program_counter >= MAX_RAM_ADDRESS
    \/ program_counter % 2 = 1

(* A loop that does not stop at the budget *)
Iteration_Unbounded ==
    /\ phase = "loop"
    /\ ~PcInvalid

(* A loop iteration that passed the program counter check and fetched *)
Iteration ==
    /\ phase = "loop"
    /\ cycle < cycles
    /\ ~PcInvalid

(* What every loop iteration records and leaves alone *)
FetchedAny ==
    /\ opcode' = <<Byte0, Byte1>>
    /\ before' = Machine
    /\ prev_opcode' = opcode
    /\ prev' = before
    /\ UNCHANGED << config_vars, clock_buffer, cycles, keyboard, frames, key_events,
                    call_trail >>

(* The same for every handler but those of 2nnn, 00EE and Fx15 *)
Fetched ==
    /\ FetchedAny
    /\ UNCHANGED << calls, matched, timer_set, draws, audio >>

(* A panic: the process is gone.  how is "overflow panic" (integer
   overflow, builds with overflow checks only) or "index panic" (an index or
   a slice range out of bounds) *)
Panicked(how) ==
    /\ phase' = "panicked"
    /\ outcome' = how
    /\ UNCHANGED << program_counter, cycle, result, faults >>

(* Line 399, `self.program_counter += 2`, with p the value the handler left,
   and the step to the next iteration *)
Completed(p) ==
    IF overflow_checks /\ p + 2 >= U16
    THEN Panicked("overflow panic")
    ELSE /\ program_counter' = (p + 2) % U16
         /\ cycle' = cycle + 1
         /\ outcome' = "completed"
         /\ UNCHANGED << phase, result, faults >>

(* Faulted behind the program counter increment of line 399 *)
Faulted_Advances(msg) ==
    /\ result' = msg
    /\ phase' = "idle"
    /\ outcome' = "fault"
    /\ faults' = faults + 1
    /\ program_counter' = (program_counter + 2) % U16
    /\ UNCHANGED cycle

(* `return Some(message)` *)
Faulted(msg) ==
    /\ result' = msg
    /\ phase' = "idle"
    /\ outcome' = "fault"
    /\ faults' = faults + 1
    /\ UNCHANGED << program_counter, cycle >>

(* `break 'run_loop` with the program counter left at p *)
Broke(p, how) ==
    /\ program_counter' = p
    /\ phase' = "end"
    /\ outcome' = how
    /\ UNCHANGED << cycle, result, faults >>

----------------------------------------------------------------------------
(* Chip8::run, lines 85-101 and 402-404 *)

(* `self.clock_buffer += self.clock_hz` on u32.  clock_hz holds the u32 as
   the i32 of the same bits: a rate of 2^31 or more is the negative number
   rate - 2^32, and 2^32 = U32_DIV_FRAME_RATE * 60 + U32_MOD_FRAME_RATE. *)
ClockOverflows == clock_hz < 0 /\ clock_hz + clock_buffer >= 0

ClockCycles ==
    IF clock_hz >= 0 \/ ClockOverflows
    THEN (clock_buffer + clock_hz) \div FRAME_RATE
    ELSE U32_DIV_FRAME_RATE
            + ((U32_MOD_FRAME_RATE + clock_hz + clock_buffer) \div FRAME_RATE)

ClockRest ==
    IF clock_hz >= 0 \/ ClockOverflows
    THEN (clock_buffer + clock_hz) % FRAME_RATE
    ELSE (U32_MOD_FRAME_RATE + clock_hz + clock_buffer) % FRAME_RATE

(* A timer decremented without the test of lines 87 and 88 *)
TimerTick_Wraps(t) == (t - 1) % U8

(* Lines 87 and 88: `if self.delay_timer > 0 { self.delay_timer -= 1 }` and
   the same for the sound timer *)
TimerTick(t) == IF t > 0 THEN t - 1 ELSE t

RunBegin ==
    /\ phase = "idle"
    /\ frames < frame_limit
    /\ frames' = frames + 1
    /\ delay_timer' = TimerTick(delay_timer)
    /\ sound_timer' = TimerTick(sound_timer)
    /\ entry' = [machine |-> Machine, waiting |-> outcome = "blocked"]
    /\ outcome' = "none"
    /\ draws' = 0
    /\ IF overflow_checks /\ ClockOverflows
       THEN /\ phase' = "panicked"
            /\ UNCHANGED << cycles, clock_buffer, cycle, budgets >>
       ELSE /\ cycles' = ClockCycles
            /\ clock_buffer' = ClockRest
            /\ cycle' = 0
            /\ phase' = "loop"
            /\ budgets' = Append(budgets, ClockCycles)
    /\ UNCHANGED << ram, frame_buffer, stack, key_released, keyboard,
                    remaining_samples, config_vars, program_counter,
                    index_register, stack_pointer, general_registers, result,
                    opcode, before, key_events, faults, calls, matched,
                    step_trail, timer_set, audio >>

PcFault ==
    /\ phase = "loop"
    /\ cycle < cycles
    /\ PcInvalid
    /\ opcode' = <<>>
    /\ before' = Machine
    /\ prev_opcode' = opcode
    /\ prev' = before
    /\ Faulted(PcFaultMsg)
    /\ UNCHANGED << ram, frame_buffer, stack, key_released, keyboard,
                    remaining_samples, config_vars, clock_buffer,
                    index_register, stack_pointer, delay_timer, sound_timer,
                    general_registers, cycles, frames, key_events, calls, matched,
                    call_trail, timer_set, draws, audio >>

RunEnd ==
    /\ \/ phase = "loop" /\ ~(cycle < cycles)
       \/ phase = "end"
    /\ key_released' = [k \in 0..15 |-> FALSE]
    /\ result' = NoFault
    /\ phase' = "idle"
    /\ UNCHANGED << ram, frame_buffer, stack, keyboard, remaining_samples,
                    config_vars, clock_buffer, program_counter, index_register,
                    stack_pointer, delay_timer, sound_timer, general_registers,
                    cycles, cycle, outcome, opcode, before, frames, key_events,
                    faults, calls, matched, call_trail, step_trail, timer_set, draws, audio >>

----------------------------------------------------------------------------
(* The host's event loop, main.rs lines 186-202 *)

HostUnchanged ==
    UNCHANGED << ram, frame_buffer, stack, remaining_samples, config_vars,
                 clock_buffer, program_counter, index_register, stack_pointer,
                 delay_timer, sound_timer, general_registers, phase, cycles,
                 cycle, result, outcome, opcode, before, frames, faults, calls,
                 matched, call_trail, step_trail, timer_set, draws, audio >>

KeyDown ==
    /\ phase = "idle"
    /\ key_events < MaxKeyEvents
    /\ \E k \in host_keys :
        /\ keyboard' = [keyboard EXCEPT ![k] = TRUE]
        /\ UNCHANGED key_released
    /\ key_events' = key_events + 1
    /\ HostUnchanged

KeyUp ==
    /\ phase = "idle"
    /\ key_events < MaxKeyEvents
    /\ \E k \in host_keys :
        /\ keyboard' = [keyboard EXCEPT ![k] = FALSE]
        /\ key_released' = [key_released EXCEPT ![k] = TRUE]
    /\ key_events' = key_events + 1
    /\ HostUnchanged

----------------------------------------------------------------------------
(* The opcode handlers of run(), lines 111-396 *)

NoMachineChange ==
    UNCHANGED << ram, frame_buffer, stack, key_released, remaining_samples,
                 index_register, stack_pointer, delay_timer, sound_timer,
                 general_registers >>

OnlyRegisters ==
    UNCHANGED << ram, frame_buffer, stack, key_released, remaining_samples,
                 index_register, stack_pointer, delay_timer, sound_timer >>

(* `nnn - 2` and the like on u16: the jump target before line 399 adds 2 *)
(* 1nnn without the `- 2` of line 132 *)
JumpTo_NoAdjust(target) == Completed(target)

JumpTo(target) ==
    IF overflow_checks /\ target < 2
    THEN Panicked("overflow panic")
    ELSE Completed((target - 2) % U16)

(* 00E0 CLS *)
CLS ==
    /\ Iteration
    /\ Op0 = 0 /\ NNN = 224
    /\ frame_buffer' =
        [p \in 0..(FRAME_BUFFER_WIDTH * FRAME_BUFFER_HEIGHT - 1) |-> background_color]
    /\ UNCHANGED << ram, stack, key_released, remaining_samples, index_register,
                    stack_pointer, delay_timer, sound_timer, general_registers >>
    /\ Fetched
    /\ Completed(program_counter)

(* 00EE RET *)
RET ==
    /\ Iteration
    /\ Op0 = 0 /\ NNN = 238
    /\ FetchedAny
    /\ UNCHANGED << ram, frame_buffer, stack, key_released, remaining_samples,
                    index_register, delay_timer, sound_timer, general_registers,
                    timer_set, draws, audio >>
    /\ IF stack_pointer = 0
       THEN Faulted(StackUnderflowMsg) /\ UNCHANGED << stack_pointer, calls, matched >>
       ELSE IF stack_pointer - 1 >= STACK_LEN
       THEN Panicked("index panic") /\ UNCHANGED << stack_pointer, calls, matched >>
       ELSE /\ stack_pointer' = stack_pointer - 1
            /\ Completed(stack[stack_pointer - 1])
            /\ matched' = IF calls = << >> THEN << >> ELSE calls[Len(calls)]
            /\ calls' = IF calls = << >> THEN << >> ELSE SubSeq(calls, 1, Len(calls) - 1)

(* 0nnn SYS: ignored *)
SYS ==
    /\ Iteration
    /\ Op0 = 0 /\ NNN # 224 /\ NNN # 238
    /\ NoMachineChange
    /\ Fetched
    /\ Completed(program_counter)

(* 1nnn JP addr *)
JP ==
    /\ Iteration
    /\ Op0 = 1
    /\ NoMachineChange
    /\ Fetched
    /\ JumpTo(NNN)

(* CALL without the test for a full stack *)
CALL_NoFullCheck ==
    /\ Iteration
    /\ Op0 = 2
    /\ FetchedAny
    /\ UNCHANGED << ram, frame_buffer, key_released, remaining_samples,
                    index_register, delay_timer, sound_timer, general_registers,
                    matched, timer_set, draws, audio >>
    /\ IF stack_pointer >= STACK_LEN
       THEN Panicked("index panic") /\ UNCHANGED << stack, stack_pointer, calls >>
       ELSE /\ stack' = [stack EXCEPT ![stack_pointer] = program_counter]
            /\ stack_pointer' = stack_pointer + 1
            /\ calls' = Append(calls, << program_counter, stack_pointer >>)
            /\ JumpTo(NNN)

(* CALL pushing the address of the next instruction *)
CALL_PushesNext ==
    /\ Iteration
    /\ Op0 = 2
    /\ FetchedAny
    /\ UNCHANGED << ram, frame_buffer, key_released, remaining_samples,
                    index_register, delay_timer, sound_timer, general_registers,
                    matched, timer_set, draws, audio >>
    /\ IF stack_pointer = STACK_LEN
       THEN Faulted(StackOverflowMsg) /\ UNCHANGED << stack, stack_pointer, calls >>
       ELSE IF stack_pointer > STACK_LEN
       THEN Panicked("index panic") /\ UNCHANGED << stack, stack_pointer, calls >>
       ELSE /\ stack' = [stack EXCEPT ![stack_pointer] = program_counter + 2]
            /\ stack_pointer' = stack_pointer + 1
            /\ calls' = Append(calls, << program_counter, stack_pointer >>)
            /\ JumpTo(NNN)

(* 2nnn CALL addr *)
CALL ==
    /\ Iteration
    /\ Op0 = 2
    /\ FetchedAny
    /\ UNCHANGED << ram, frame_buffer, key_released, remaining_samples,
                    index_register, delay_timer, sound_timer, general_registers,
                    matched, timer_set, draws, audio >>
    /\ IF stack_pointer = STACK_LEN
       THEN Faulted(StackOverflowMsg) /\ UNCHANGED << stack, stack_pointer, calls >>
       ELSE IF stack_pointer > STACK_LEN
       THEN Panicked("index panic") /\ UNCHANGED << stack, stack_pointer, calls >>
       ELSE /\ stack' = [stack EXCEPT ![stack_pointer] = program_counter]
            /\ stack_pointer' = stack_pointer + 1
            /\ calls' = Append(calls, << program_counter, stack_pointer >>)
            /\ JumpTo(NNN)

(* 3xkk SE Vx, byte *)
SE_byte ==
    /\ Iteration
    /\ Op0 = 3
    /\ NoMachineChange
    /\ Fetched
    /\ Completed(IF VX = KK THEN program_counter + 2 ELSE program_counter)

(* 4xkk SNE Vx, byte *)
SNE_byte ==
    /\ Iteration
    /\ Op0 = 4
    /\ NoMachineChange
    /\ Fetched
    /\ Completed(IF VX # KK THEN program_counter + 2 ELSE program_counter)

(* 5xy0 SE Vx, Vy *)
SE_reg ==
    /\ Iteration
    /\ Op0 = 5 /\ Op3 = 0
    /\ NoMachineChange
    /\ Fetched
    /\ Completed(IF VX = VY THEN program_counter + 2 ELSE program_counter)

(* 6xkk LD Vx, byte *)
LD_byte ==
    /\ Iteration
    /\ Op0 = 6
    /\ general_registers' = [general_registers EXCEPT ![X] = KK]
    /\ OnlyRegisters
    /\ Fetched
    /\ Completed(program_counter)

(* ADD Vx, byte setting VF to the carry, as 8xy4 does *)
ADD_byte_SetsCarry ==
    /\ Iteration
    /\ Op0 = 7
    /\ general_registers' =
        [[general_registers EXCEPT ![X] = (VX + KK) % U8]
            EXCEPT ![FLAGS_REGISTER] = IF VX + KK >= U8 THEN 1 ELSE 0]
    /\ OnlyRegisters
    /\ Fetched
    /\ Completed(program_counter)

(* 7xkk ADD Vx, byte: wrapping_add *)
ADD_byte ==
    /\ Iteration
    /\ Op0 = 7
    /\ general_registers' = [general_registers EXCEPT ![X] = (VX + KK) % U8]
    /\ OnlyRegisters
    /\ Fetched
    /\ Completed(program_counter)

(* 8xy0 LD Vx, Vy *)
LD_reg ==
    /\ Iteration
    /\ Op0 = 8 /\ Op3 = 0
    /\ general_registers' = [general_registers EXCEPT ![X] = VY]
    /\ OnlyRegisters
    /\ Fetched
    /\ Completed(program_counter)

(* 8xy1 with the flag reset before the result is stored *)
OR_reg_ResultLast ==
    /\ Iteration
    /\ Op0 = 8 /\ Op3 = 1
    /\ general_registers' =
        [general_registers EXCEPT ![FLAGS_REGISTER] = 0, ![X] = BitOr(VX, VY)]
    /\ OnlyRegisters
    /\ Fetched
    /\ Completed(program_counter)

(* 8xy1 OR Vx, Vy *)
OR_reg ==
    /\ Iteration
    /\ Op0 = 8 /\ Op3 = 1
    /\ general_registers' =
        [general_registers EXCEPT ![X] = BitOr(VX, VY), ![FLAGS_REGISTER] = 0]
    /\ OnlyRegisters
    /\ Fetched
    /\ Completed(program_counter)

(* 8xy2 AND Vx, Vy *)
AND_reg ==
    /\ Iteration
    /\ Op0 = 8 /\ Op3 = 2
    /\ general_registers' =
        [general_registers EXCEPT ![X] = BitAnd(VX, VY), ![FLAGS_REGISTER] = 0]
    /\ OnlyRegisters
    /\ Fetched
    /\ Completed(program_counter)

(* 8xy3 XOR Vx, Vy *)
XOR_reg ==
    /\ Iteration
    /\ Op0 = 8 /\ Op3 = 3
    /\ general_registers' =
        [general_registers EXCEPT ![X] = BitXor(VX, VY), ![FLAGS_REGISTER] = 0]
    /\ OnlyRegisters
    /\ Fetched
    /\ Completed(program_counter)

(* 8xy4 writing the flag before it reads the operands *)
ADD_reg_FlagFirst ==
    /\ Iteration
    /\ Op0 = 8 /\ Op3 = 4
    /\ general_registers' =
        LET flagged == [general_registers EXCEPT
                            ![FLAGS_REGISTER] = IF VX + VY >= U8 THEN 1 ELSE 0]
        IN  [flagged EXCEPT ![X] = (flagged[X] + flagged[Y]) % U8]
    /\ OnlyRegisters
    /\ Fetched
    /\ Completed(program_counter)

(* 8xy4 ADD Vx, Vy: overflowing_add *)
ADD_reg ==
    /\ Iteration
    /\ Op0 = 8 /\ Op3 = 4
    /\ general_registers' =
        [general_registers EXCEPT
            ![X] = (VX + VY) % U8,
            ![FLAGS_REGISTER] = IF VX + VY >= U8 THEN 1 ELSE 0]
    /\ OnlyRegisters
    /\ Fetched
    /\ Completed(program_counter)

(* 8xy5 with the flag set on borrow, as a carry would be *)
SUB_reg_FlagOnBorrow ==
    /\ Iteration
    /\ Op0 = 8 /\ Op3 = 5
    /\ general_registers' =
        [general_registers EXCEPT
            ![X] = (VX - VY) % U8,
            ![FLAGS_REGISTER] = IF VX < VY THEN 1 ELSE 0]
    /\ OnlyRegisters
    /\ Fetched
    /\ Completed(program_counter)

(* 8xy5 SUB Vx, Vy: overflowing_sub *)
SUB_reg ==
    /\ Iteration
    /\ Op0 = 8 /\ Op3 = 5
    /\ general_registers' =
        [general_registers EXCEPT
            ![X] = (VX - VY) % U8,
            ![FLAGS_REGISTER] = IF VX < VY THEN 0 ELSE 1]
    /\ OnlyRegisters
    /\ Fetched
    /\ Completed(program_counter)

(* 8xy6 shifting Vx in place, Vy ignored *)
SHR_reg_InPlace ==
    /\ Iteration
    /\ Op0 = 8 /\ Op3 = 6
    /\ general_registers' =
        [general_registers EXCEPT
            ![X] = VX \div 2,
            ![FLAGS_REGISTER] = VX % 2]
    /\ OnlyRegisters
    /\ Fetched
    /\ Completed(program_counter)

(* 8xy6 SHR Vx, Vy *)
SHR_reg ==
    /\ Iteration
    /\ Op0 = 8 /\ Op3 = 6
    /\ general_registers' =
        [general_registers EXCEPT
            ![X] = VY \div 2,
            ![FLAGS_REGISTER] = VY % 2]
    /\ OnlyRegisters
    /\ Fetched
    /\ Completed(program_counter)

(* 8xy7 SUBN Vx, Vy: overflowing_sub *)
SUBN_reg ==
    /\ Iteration
    /\ Op0 = 8 /\ Op3 = 7
    /\ general_registers' =
        [general_registers EXCEPT
            ![X] = (VY - VX) % U8,
            ![FLAGS_REGISTER] = IF VY < VX THEN 0 ELSE 1]
    /\ OnlyRegisters
    /\ Fetched
    /\ Completed(program_counter)

(* 8xyE SHL Vx, Vy *)
SHL_reg ==
    /\ Iteration
    /\ Op0 = 8 /\ Op3 = 14
    /\ general_registers' =
        [general_registers EXCEPT
            ![X] = (VY * 2) % U8,
            ![FLAGS_REGISTER] = VY \div 128]
    /\ OnlyRegisters
    /\ Fetched
    /\ Completed(program_counter)

(* 9xy0 SNE Vx, Vy *)
SNE_reg ==
    /\ Iteration
    /\ Op0 = 9 /\ Op3 = 0
    /\ NoMachineChange
    /\ Fetched
    /\ Completed(IF VX # VY THEN program_counter + 2 ELSE program_counter)

(* Annn LD I, addr *)
LD_I ==
    /\ Iteration
    /\ Op0 = 10
    /\ index_register' = NNN
    /\ UNCHANGED << ram, frame_buffer, stack, key_released, remaining_samples,
                    stack_pointer, delay_timer, sound_timer, general_registers >>
    /\ Fetched
    /\ Completed(program_counter)

(* Bnnn JP V0, addr *)
JP_V0 ==
    /\ Iteration
    /\ Op0 = 11
    /\ NoMachineChange
    /\ Fetched
    /\ JumpTo(NNN + general_registers[0])

(* Cxkk RND Vx, byte: any byte of the generator, masked *)
RND ==
    /\ Iteration
    /\ Op0 = 12
    /\ \E r \in RandomBytes :
        general_registers' = [general_registers EXCEPT ![X] = BitAnd(r, KK)]
    /\ OnlyRegisters
    /\ Fetched
    /\ Completed(program_counter)

(* Dxyn without the clipping at the bottom edge *)
DrawRows_NoClip == 0..(N - 1)

(* Dxyn DRW Vx, Vy, n *)
DrawRegisters == [general_registers EXCEPT ![FLAGS_REGISTER] = 0]
DrawX == DrawRegisters[X] % FRAME_BUFFER_WIDTH
DrawY == DrawRegisters[Y] % FRAME_BUFFER_HEIGHT
DrawLast == (index_register + N - 1) % U16
DrawOverflows == index_register + N >= U16 \/ index_register + N - 1 < 0
DrawRows == {i \in 0..(N - 1) : DrawY + i < FRAME_BUFFER_HEIGHT}
DrawCols == {j \in 0..(SPRITE_WIDTH - 1) : DrawX + j < FRAME_BUFFER_WIDTH}
DrawCells == {(DrawY + i) * FRAME_BUFFER_WIDTH + DrawX + j : i \in DrawRows, j \in DrawCols}
DrawBit(p) ==
    LET i == (p \div FRAME_BUFFER_WIDTH) - DrawY
        j == (p % FRAME_BUFFER_WIDTH) - DrawX
    IN  Bit(RamByte(ram, index_register + i), SPRITE_WIDTH - 1 - j)
DrawPixel(p) ==
    LET lit == PixelBytes(frame_buffer, p) = foreground_color
        bit == DrawBit(p)
    IN  IF ~lit /\ bit = 0 THEN background_color
        ELSE IF ~lit \/ bit = 0 THEN foreground_color
        ELSE background_color
DrawErases == \E p \in DrawCells : PixelBytes(frame_buffer, p) = foreground_color /\ DrawBit(p) # 0

(* A draw that never waits for the next frame *)
DrawSynced_Never == FALSE

(* Line 292, `if self.is_drawsync` *)
DrawSynced == is_drawsync

DRW ==
    /\ Iteration
    /\ Op0 = 13
    /\ FetchedAny
    /\ UNCHANGED << calls, matched, timer_set, audio >>
    /\ UNCHANGED << ram, stack, key_released, remaining_samples, index_register,
                    stack_pointer, delay_timer, sound_timer >>
    /\ IF overflow_checks /\ DrawOverflows
       THEN /\ Panicked("overflow panic")
            /\ general_registers' = DrawRegisters
            /\ UNCHANGED << frame_buffer, draws >>
       ELSE IF DrawLast >= MAX_RAM_ADDRESS
       THEN /\ Faulted(DrawFaultMsg)
            /\ general_registers' = DrawRegisters
            /\ UNCHANGED << frame_buffer, draws >>
       ELSE IF \E i \in DrawRows : index_register + i >= MAX_RAM_ADDRESS
       THEN /\ Panicked("index panic")
            /\ general_registers' = DrawRegisters
            /\ UNCHANGED << frame_buffer, draws >>
       ELSE /\ frame_buffer' =
                [p \in (DOMAIN frame_buffer) \cup DrawCells |->
                    IF p \in DrawCells THEN DrawPixel(p) ELSE frame_buffer[p]]
            /\ general_registers' =
                [DrawRegisters EXCEPT ![FLAGS_REGISTER] = IF DrawErases THEN 1 ELSE 0]
            /\ draws' = draws + 1
            /\ IF DrawSynced
               THEN Broke(program_counter + 2, "sync")
               ELSE Completed(program_counter)

(* Ex9E SKP Vx *)
SKP ==
    /\ Iteration
    /\ Op0 = 14 /\ Byte1 = 158
    /\ NoMachineChange
    /\ Fetched
    /\ Completed(IF keyboard[BitAnd(VX, 15)] THEN program_counter + 2 ELSE program_counter)

(* SKNP skipping when the key is down *)
SKNP_NotNegated ==
    /\ Iteration
    /\ Op0 = 14 /\ Byte1 = 161
    /\ NoMachineChange
    /\ Fetched
    /\ Completed(IF keyboard[BitAnd(VX, 15)] THEN program_counter + 2 ELSE program_counter)

(* ExA1 SKNP Vx *)
SKNP ==
    /\ Iteration
    /\ Op0 = 14 /\ Byte1 = 161
    /\ NoMachineChange
    /\ Fetched
    /\ Completed(IF ~keyboard[BitAnd(VX, 15)] THEN program_counter + 2 ELSE program_counter)

(* Fx07 LD Vx, DT *)
(* Fx07 reading the delay timer as the call of run() found it, before the
   decrement of line 87 *)
LD_Vx_DT_Stale ==
    /\ Iteration
    /\ Op0 = 15 /\ Byte1 = 7
    /\ general_registers' = [general_registers EXCEPT ![X] = entry.machine.delay_timer]
    /\ OnlyRegisters
    /\ Fetched
    /\ Completed(program_counter)

LD_Vx_DT ==
    /\ Iteration
    /\ Op0 = 15 /\ Byte1 = 7
    /\ general_registers' = [general_registers EXCEPT ![X] = delay_timer]
    /\ OnlyRegisters
    /\ Fetched
    /\ Completed(program_counter)

(* Fx0A going on to the next instruction when no key was released *)
LD_Vx_K_NoBreak ==
    /\ Iteration
    /\ Op0 = 15 /\ Byte1 = 10
    /\ Fetched
    /\ UNCHANGED << ram, frame_buffer, stack, remaining_samples, index_register,
                    stack_pointer, delay_timer, sound_timer >>
    /\ IF \E i \in 0..15 : key_released[i]
       THEN LET k == CHOOSE i \in 0..15 :
                        key_released[i] /\ \A h \in 0..(i - 1) : ~key_released[h]
            IN  /\ key_released' = [key_released EXCEPT ![k] = FALSE]
                /\ general_registers' = [general_registers EXCEPT ![X] = k]
                /\ Completed(program_counter)
       ELSE /\ UNCHANGED << key_released, general_registers >>
            /\ Completed(program_counter)

(* Fx0A taking the last released key instead of the first *)
LD_Vx_K_Highest ==
    /\ Iteration
    /\ Op0 = 15 /\ Byte1 = 10
    /\ Fetched
    /\ UNCHANGED << ram, frame_buffer, stack, remaining_samples, index_register,
                    stack_pointer, delay_timer, sound_timer >>
    /\ IF \E i \in 0..15 : key_released[i]
       THEN LET k == CHOOSE i \in 0..15 :
                        key_released[i] /\ \A h \in (i + 1)..15 : ~key_released[h]
            IN  /\ key_released' = [key_released EXCEPT ![k] = FALSE]
                /\ general_registers' = [general_registers EXCEPT ![X] = k]
                /\ Completed(program_counter)
       ELSE /\ UNCHANGED << key_released, general_registers >>
            /\ Broke(program_counter, "blocked")

(* Fx0A LD Vx, K *)
LD_Vx_K ==
    /\ Iteration
    /\ Op0 = 15 /\ Byte1 = 10
    /\ Fetched
    /\ UNCHANGED << ram, frame_buffer, stack, remaining_samples, index_register,
                    stack_pointer, delay_timer, sound_timer >>
    /\ IF \E i \in 0..15 : key_released[i]
       THEN LET k == CHOOSE i \in 0..15 :
                        key_released[i] /\ \A h \in 0..(i - 1) : ~key_released[h]
            IN  /\ key_released' = [key_released EXCEPT ![k] = FALSE]
                /\ general_registers' = [general_registers EXCEPT ![X] = k]
                /\ Completed(program_counter)
       ELSE /\ UNCHANGED << key_released, general_registers >>
            /\ Broke(program_counter, "blocked")

(* Fx15 LD DT, Vx *)
LD_DT_Vx ==
    /\ Iteration
    /\ Op0 = 15 /\ Byte1 = 21
    /\ delay_timer' = VX
    /\ timer_set' = << VX, frames >>
    /\ UNCHANGED << draws, audio >>
    /\ UNCHANGED << ram, frame_buffer, stack, key_released, remaining_samples,
                    index_register, stack_pointer, sound_timer, general_registers,
                    calls, matched >>
    /\ FetchedAny
    /\ Completed(program_counter)

(* cycles_before_timer without the clock rate taken off again: the
   accumulator of this call, not the remainder of the call before *)
CyclesBeforeTimer_NoRate == cycles * FRAME_RATE + clock_buffer

(* Fx18 LD ST, Vx.  Line 342 multiplies in f32 and line 343 truncates: the
   result is the exact quotient truncated, except where the rounding of
   48000.0 / 60.0 / clock_hz leaves the product just below a whole number.
   F32Short lists, for the clock rates of the sessions, the pairs of
   clock_hz and (cycle + 1) * 60 - cycles_before_timer where it does. *)
F32Short == { <<96, 60>>, <<192, 60>>, <<192, 108>>, <<192, 120>> }
CyclesBeforeTimer == cycles * FRAME_RATE + clock_buffer - clock_hz
ElapsedFrameSamples ==
    LET n == (cycle + 1) * FRAME_RATE - CyclesBeforeTimer
    IN  ((n * SAMPLES_PER_FRAME) \div clock_hz)
        - (IF <<clock_hz, n>> \in F32Short THEN 1 ELSE 0)

LD_ST_Vx ==
    /\ Iteration
    /\ Op0 = 15 /\ Byte1 = 24
    /\ sound_timer' = VX
    /\ remaining_samples' =
        IF VX > 1
        THEN << VX * SAMPLES_PER_FRAME - ElapsedFrameSamples >>
        ELSE remaining_samples
    /\ audio' =
        IF VX > 1
        THEN [audio EXCEPT !.written = << VX * SAMPLES_PER_FRAME - ElapsedFrameSamples >>,
                           !.emitted = 0]
        ELSE audio
    /\ UNCHANGED << ram, frame_buffer, stack, key_released, index_register,
                    stack_pointer, delay_timer, general_registers >>
    /\ FetchedAny
    /\ UNCHANGED << calls, matched, timer_set, draws >>
    /\ Completed(program_counter)

(* Fx1E ADD I, Vx *)
ADD_I_Vx ==
    /\ Iteration
    /\ Op0 = 15 /\ Byte1 = 30
    /\ Fetched
    /\ UNCHANGED << ram, frame_buffer, stack, key_released, remaining_samples,
                    stack_pointer, delay_timer, sound_timer, general_registers >>
    /\ IF overflow_checks /\ index_register + VX >= U16
       THEN Panicked("overflow panic") /\ UNCHANGED index_register
       ELSE /\ index_register' = (index_register + VX) % U16
            /\ Completed(program_counter)

(* Fx29 LD F, Vx *)
LD_F_Vx ==
    /\ Iteration
    /\ Op0 = 15 /\ Byte1 = 41
    /\ index_register' = general_registers[BitAnd(X, 15)] * 5
    /\ UNCHANGED << ram, frame_buffer, stack, key_released, remaining_samples,
                    stack_pointer, delay_timer, sound_timer, general_registers >>
    /\ Fetched
    /\ Completed(program_counter)

(* The digits of lines 361-363 with the `% 10` of the tens left out *)
BcdDigit_NoMod(v, k) ==
    IF k = 0 THEN v \div 100
    ELSE IF k = 1 THEN v \div 10
    ELSE v % 10

(* Lines 361-363: Vx / 100, Vx / 10 % 10 and Vx % 10, stored at I + k *)
BcdDigit(v, k) ==
    IF k = 0 THEN v \div 100
    ELSE IF k = 1 THEN (v \div 10) % 10
    ELSE v % 10

(* Fx33 LD B, Vx *)
LD_B_Vx ==
    /\ Iteration
    /\ Op0 = 15 /\ Byte1 = 51
    /\ Fetched
    /\ UNCHANGED << frame_buffer, stack, key_released, remaining_samples,
                    index_register, stack_pointer, delay_timer, sound_timer,
                    general_registers >>
    /\ IF index_register < PROGRAM_START
       THEN Faulted(BcdFaultMsg) /\ UNCHANGED ram
       ELSE IF overflow_checks /\ index_register + 2 >= U16
       THEN Panicked("overflow panic") /\ UNCHANGED ram
       ELSE IF (index_register + 2) % U16 >= MAX_RAM_ADDRESS
       THEN Faulted(BcdFaultMsg) /\ UNCHANGED ram
       ELSE IF index_register + 2 >= MAX_RAM_ADDRESS
       THEN Panicked("index panic") /\ UNCHANGED ram
       ELSE /\ ram' =
                RamStore(RamStore(RamStore(ram,
                    index_register, BcdDigit(VX, 0)),
                    index_register + 1, BcdDigit(VX, 1)),
                    index_register + 2, BcdDigit(VX, 2))
            /\ Completed(program_counter)

(* max_ram_access one short: the last register is left out *)
MaxRamAccess_Less == (index_register + X - 1) % U16

(* Fx55 LD [I], Vx *)
MaxRamAccess == (index_register + X) % U16

(* The store with the range check of the load *)
LD_I_Vx_NoLowCheck ==
    /\ Iteration
    /\ Op0 = 15 /\ Byte1 = 85
    /\ Fetched
    /\ UNCHANGED << frame_buffer, stack, key_released, remaining_samples,
                    stack_pointer, delay_timer, sound_timer, general_registers >>
    /\ IF overflow_checks /\ index_register + X >= U16
       THEN Panicked("overflow panic") /\ UNCHANGED << ram, index_register >>
       ELSE IF MaxRamAccess >= MAX_RAM_ADDRESS
       THEN Faulted(StoreFaultMsg) /\ UNCHANGED << ram, index_register >>
       ELSE IF index_register > MaxRamAccess + 1 \/ MaxRamAccess + 1 > MAX_RAM_ADDRESS
       THEN Panicked("index panic") /\ UNCHANGED << ram, index_register >>
       ELSE /\ ram' =
                [a \in (DOMAIN ram) \cup (index_register..MaxRamAccess) |->
                    IF a \in index_register..MaxRamAccess
                    THEN general_registers[a - index_register]
                    ELSE ram[a]]
            /\ index_register' = index_register + X + 1
            /\ Completed(program_counter)

LD_I_Vx ==
    /\ Iteration
    /\ Op0 = 15 /\ Byte1 = 85
    /\ Fetched
    /\ UNCHANGED << frame_buffer, stack, key_released, remaining_samples,
                    stack_pointer, delay_timer, sound_timer, general_registers >>
    /\ IF overflow_checks /\ index_register + X >= U16
       THEN Panicked("overflow panic") /\ UNCHANGED << ram, index_register >>
       ELSE IF index_register < PROGRAM_START \/ MaxRamAccess >= MAX_RAM_ADDRESS
       THEN Faulted(StoreFaultMsg) /\ UNCHANGED << ram, index_register >>
       ELSE IF index_register > MaxRamAccess + 1 \/ MaxRamAccess + 1 > MAX_RAM_ADDRESS
       THEN Panicked("index panic") /\ UNCHANGED << ram, index_register >>
       ELSE /\ ram' =
                [a \in (DOMAIN ram) \cup (index_register..MaxRamAccess) |->
                    IF a \in index_register..MaxRamAccess
                    THEN general_registers[a - index_register]
                    ELSE ram[a]]
            /\ index_register' = index_register + X + 1
            /\ Completed(program_counter)

(* Fx65 LD Vx, [I] *)
LD_Vx_I ==
    /\ Iteration
    /\ Op0 = 15 /\ Byte1 = 101
    /\ Fetched
    /\ UNCHANGED << ram, frame_buffer, stack, key_released, remaining_samples,
                    stack_pointer, delay_timer, sound_timer >>
    /\ IF overflow_checks /\ index_register + X >= U16
       THEN Panicked("overflow panic") /\ UNCHANGED << general_registers, index_register >>
       ELSE IF MaxRamAccess >= MAX_RAM_ADDRESS
       THEN Faulted(LoadFaultMsg) /\ UNCHANGED << general_registers, index_register >>
       ELSE IF index_register > MaxRamAccess + 1 \/ MaxRamAccess + 1 > MAX_RAM_ADDRESS
       THEN Panicked("index panic") /\ UNCHANGED << general_registers, index_register >>
       ELSE /\ general_registers' =
                [r \in 0..15 |->
                    IF r <= X THEN RamByte(ram, index_register + r)
                    ELSE general_registers[r]]
            /\ index_register' = index_register + X + 1
            /\ Completed(program_counter)

(* The `_ => return Some("Unsupported opcode!")` arms *)
NoHandler ==
    \/ Op0 = 5 /\ Op3 # 0
    \/ Op0 = 8 /\ Op3 \notin {0, 1, 2, 3, 4, 5, 6, 7, 14}
    \/ Op0 = 9 /\ Op3 # 0
    \/ Op0 = 14 /\ Byte1 \notin {158, 161}
    \/ Op0 = 15 /\ Byte1 \notin {7, 10, 21, 24, 30, 41, 51, 85, 101}

(* An unsupported opcode skipped instead of reported *)
Unsupported_FallsThrough ==
    /\ Iteration
    /\ NoHandler
    /\ NoMachineChange
    /\ Fetched
    /\ Completed(program_counter)

Unsupported ==
    /\ Iteration
    /\ NoHandler
    /\ NoMachineChange
    /\ Fetched
    /\ Faulted(UnsupportedMsg)

----------------------------------------------------------------------------
(* Chip8::init, lines 60-83, for a ROM that fits *)

Start(s) ==
        /\ rom = s.rom
        /\ ram = (IF RomFits(s.rom) THEN LoadImage(s.rom) ELSE << >>)
        /\ frame_buffer = << >>
        /\ stack = [i \in 0..(STACK_LEN - 1) |-> 0]
        /\ key_released = [k \in 0..15 |-> FALSE]
        /\ keyboard = [k \in 0..15 |-> FALSE]
        /\ remaining_samples = << >>
        /\ clock_hz = s.clock_hz
        /\ clock_buffer = 0
        /\ background_color = s.background_color
        /\ foreground_color = s.foreground_color
        /\ is_drawsync = s.is_drawsync
        /\ program_counter = PROGRAM_START
        /\ index_register = 0
        /\ stack_pointer = 0
        /\ delay_timer = 0
        /\ sound_timer = 0
        /\ general_registers = [r \in 0..15 |-> 0]
        /\ overflow_checks = s.overflow_checks
        /\ host_keys = s.host_keys
        /\ frame_limit = s.frame_limit
        /\ phase = (IF RomFits(s.rom) THEN "idle" ELSE "rejected")
        /\ cycles = 0
        /\ cycle = 0
        /\ result = NoFault
        /\ outcome = "none"
        /\ opcode = << >>
        /\ before = << >>
        /\ frames = 0
        /\ key_events = 0
        /\ faults = 0
        /\ calls = << >>
        /\ matched = << >>
        /\ prev = << >>
        /\ prev_opcode = << >>
        /\ entry = << >>
        /\ budgets = << >>
        /\ timer_set = << >>
        /\ draws = 0
        /\ audio = [written |-> << >>, emitted |-> 0, last |-> << >>, callbacks |-> 0]

Init == \E s \in AllSessions : Start(s)

----------------------------------------------------------------------------
(* The audio thread, main.rs lines 334-369.  The callback holds the counter
   Fx18 writes (line 133) and runs at any moment between two steps of the
   engine; its one access to the counter is the fetch_sub of line 344. *)

I32_MAX == 2147483647
I32_MIN == -I32_MAX - 1
MaxCallbacks == 3

(* `requested`, the samples the audio stream asks for *)
Requests == {0, 480, 4096}

(* AtomicI32::fetch_sub wraps around on overflow; r >= 0 *)
WrapSub(c, r) ==
    IF c >= 0 \/ c - I32_MIN >= r
    THEN c - r
    ELSE I32_MAX - (r - 1 - (c - I32_MIN))

(* Lines 344-350 with the counter at c and r requested: the counter left
   behind and the turns of `for _ in 0..requested` *)
Callback(c, r) ==
    LET requested == IF c < r THEN c ELSE r
    IN  [ counter |-> WrapSub(c, r),
          emitted |-> IF requested > 0 THEN requested ELSE 0 ]

AudioUnchanged ==
    UNCHANGED << ram, frame_buffer, stack, key_released, keyboard, config_vars,
                 clock_buffer, program_counter, index_register, stack_pointer,
                 delay_timer, sound_timer, general_registers, phase, cycles,
                 cycle, result, outcome, opcode, before, frames, key_events,
                 faults, calls, matched, call_trail, step_trail, timer_set,
                 draws >>

(* One call of AudioState::callback.  chip8.rs gives the counter no value
   before the first Fx18 (None, line 81): the callbacks before it are left
   out. *)
AudioCallback ==
    /\ remaining_samples # << >>
    /\ audio.callbacks < MaxCallbacks
    /\ \E r \in Requests :
        LET done == Callback(remaining_samples[1], r)
        IN  /\ remaining_samples' = << done.counter >>
            /\ audio' = [audio EXCEPT !.emitted = @ + done.emitted,
                                      !.last = << r, remaining_samples[1], done.emitted >>,
                                      !.callbacks = @ + 1]
    /\ AudioUnchanged

(* A run of callbacks while nothing is left to play and the engine waits on
   an Fx0A that no key ends, so that the frames passing meanwhile write
   nothing: 2^19 - 1 callbacks of 4096 samples, 12.4 hours of silence at
   48000 samples a second.  With the counter at c <= 0 and the run ending
   at I32_MIN or above each of them reads a counter <= 0, emits nothing
   (Callback(c, r).emitted = 0) and subtracts its request. *)
IdleRun == [callbacks |-> 524287, request |-> 4096]

AudioIdle ==
    LET total == IdleRun.callbacks * IdleRun.request
    IN  /\ phase = "idle" /\ outcome = "blocked"
        /\ remaining_samples # << >>
        /\ remaining_samples[1] <= 0
        /\ remaining_samples[1] >= I32_MIN + total
        /\ remaining_samples' = << remaining_samples[1] - total >>
        /\ audio' = [audio EXCEPT
                        !.last = << IdleRun.request,
                                    remaining_samples[1] - total + IdleRun.request, 0 >>]
        /\ AudioUnchanged

Next ==
    \/ RunBegin \/ PcFault \/ RunEnd \/ KeyDown \/ KeyUp
    \/ CLS \/ RET \/ SYS \/ JP \/ CALL
    \/ SE_byte \/ SNE_byte \/ SE_reg \/ LD_byte \/ ADD_byte
    \/ LD_reg \/ OR_reg \/ AND_reg \/ XOR_reg \/ ADD_reg \/ SUB_reg
    \/ SHR_reg \/ SUBN_reg \/ SHL_reg \/ SNE_reg
    \/ LD_I \/ JP_V0 \/ RND \/ DRW \/ SKP \/ SKNP
    \/ LD_Vx_DT \/ LD_Vx_K \/ LD_DT_Vx \/ LD_ST_Vx \/ ADD_I_Vx
    \/ LD_F_Vx \/ LD_B_Vx \/ LD_I_Vx \/ LD_Vx_I
    \/ Unsupported

Spec == Init /\ [][Next]_vars

(* The engine of the sound sessions with the audio thread beside it *)
AudioSessions == Sessions(AudioRoms, {120}, {TRUE}, {{}})
AudioInit == \E s \in AudioSessions : Start(s)
AudioNext ==
    \/ RunBegin \/ RunEnd
    \/ LD_byte \/ LD_ST_Vx \/ LD_Vx_K
    \/ AudioCallback \/ AudioIdle
AudioSpec == AudioInit /\ [][AudioNext]_vars

----------------------------------------------------------------------------
(* Properties.  They speak of the last loop iteration through the history:
   `before` is the machine when it began, `opcode` what it fetched and
   `outcome` how it ended. *)

Rejected == phase = "rejected"  \* Chip8::init returned Err: there is no engine
Ran == outcome # "none"
Executed == outcome \in {"completed", "sync"}
Decoded == Ran /\ opcode # << >>
ReturnedFault == outcome = "fault"
L0 == opcode[1] \div 16
LX == opcode[1] % 16
LY == opcode[2] \div 16
LN == opcode[2] % 16
LKK == opcode[2]
LNNN == (opcode[1] % 16) * 256 + opcode[2]
Capacity == 4096 - 352

SameRam ==
    \A a \in (DOMAIN ram) \cup (DOMAIN before.ram) :
        RamByte(ram, a) = RamByte(before.ram, a)

SameDisplay ==
    \A q \in (DOMAIN frame_buffer) \cup (DOMAIN before.frame_buffer) :
        PixelBytes(frame_buffer, q) = PixelBytes(before.frame_buffer, q)

(* The registers other than PC, the stack, RAM and display are as the last
   iteration found them *)
OnlyPcMayDiffer ==
    /\ general_registers = before.general_registers
    /\ index_register = before.index_register
    /\ stack_pointer = before.stack_pointer
    /\ stack = before.stack
    /\ SameRam
    /\ SameDisplay

InstructionChangedNothing ==
    /\ OnlyPcMayDiffer
    /\ program_counter = before.program_counter

(* C1: whenever run() returns a fault, the faulting instruction has changed
   none of V0..VF, I, PC, SP, the stack, RAM and the display. *)
C1_FaultChangesNothing == ReturnedFault => InstructionChangedNothing

(* C2: a cycle that starts with PC odd or outside [0x200, capacity) returns
   ProgramCounterFault with nothing fetched or changed; every other cycle
   fetches the bytes at PC and PC + 1, both inside RAM. *)
C2_PcChecked ==
    Ran =>
        LET pc0 == before.program_counter IN
        IF pc0 % 2 = 1 \/ pc0 < 512 \/ pc0 >= Capacity
        THEN /\ ReturnedFault
             /\ result = PcFaultMsg
             /\ opcode = << >>
             /\ InstructionChangedNothing
        ELSE /\ pc0 + 1 < Capacity
             /\ opcode = << RamByte(before.ram, pc0), RamByte(before.ram, pc0 + 1) >>
             /\ ~(ReturnedFault /\ result = PcFaultMsg)

C2_Witness ==
    /\ ReturnedFault
    /\ result = PcFaultMsg
    /\ before.program_counter % 2 = 1

(* The opcode patterns of the instruction table *)
InTable ==
    \/ L0 = 0 /\ LNNN \in {224, 238}
    \/ L0 \in {1, 2, 3, 4, 6, 7, 10, 11, 12, 13}
    \/ L0 \in {5, 9} /\ LN = 0
    \/ L0 = 8 /\ LN \in {0, 1, 2, 3, 4, 5, 6, 7, 14}
    \/ L0 = 14 /\ LKK \in {158, 161}
    \/ L0 = 15 /\ LKK \in {7, 10, 21, 24, 30, 41, 51, 85, 101}

FaultedUnsupported ==
    /\ ReturnedFault
    /\ result = UnsupportedMsg
    /\ InstructionChangedNothing

(* C3 as claimed: every fetched word outside the instruction table, the
   0nnn words included, returns UnsupportedOpcode and leaves PC on it. *)
C3_AllUnlistedFault == (Decoded /\ ~InTable) => FaultedUnsupported

(* C3: a fetched word outside the instruction table returns
   UnsupportedOpcode and leaves PC on it, except 0nnn with nnn other than
   0E0 and 0EE, which is ignored: it changes nothing and PC advances by 2. *)
C3_UnlistedFaultOrIgnored ==
    (Decoded /\ ~InTable) =>
        IF L0 = 0
        THEN /\ outcome = "completed"
             /\ program_counter = before.program_counter + 2
             /\ OnlyPcMayDiffer
        ELSE FaultedUnsupported

C3_Witness ==
    /\ Decoded
    /\ L0 = 8 /\ LN = 15
    /\ FaultedUnsupported

(* C4: 0 <= SP <= 12 always; 2nnn with SP = 12 and 00EE with SP = 0 return
   StackFault with SP and the stack unchanged; no CALL or RET indexes the
   stack outside 0..11. *)
C4_StackBounded ==
    /\ stack_pointer \in 0..12
    /\ DOMAIN stack = 0..11
    /\ (Decoded /\ L0 = 2 /\ before.stack_pointer = 12) =>
            /\ ReturnedFault /\ result = StackOverflowMsg
            /\ stack_pointer = 12 /\ stack = before.stack
    /\ (Decoded /\ L0 = 0 /\ LNNN = 238 /\ before.stack_pointer = 0) =>
            /\ ReturnedFault /\ result = StackUnderflowMsg
            /\ stack_pointer = 0 /\ stack = before.stack
    /\ (Decoded /\ (L0 = 2 \/ (L0 = 0 /\ LNNN = 238))) => outcome # "index panic"
    /\ (ReturnedFault /\ result = StackOverflowMsg) => before.stack_pointer = 12
    /\ (ReturnedFault /\ result = StackUnderflowMsg) => before.stack_pointer = 0

C4_Witness ==
    /\ ReturnedFault
    /\ result = StackOverflowMsg
    /\ stack_pointer = 12
    /\ \A i \in 0..11 : stack[i] = 516

(* C5 as claimed: with I the index register before the instruction, Fx33
   faults iff I < 0x200 or I + 2 >= capacity, Fx55 iff I < 0x200 or
   I + x >= capacity, Fx65 iff I + x >= capacity, Dxyn iff n >= 1 and
   I + n - 1 >= capacity; and none of the four stops the engine other
   than by returning that fault. *)
C5_IndexRangeChecked ==
    /\ (Decoded /\ (L0 = 13 \/ (L0 = 15 /\ LKK \in {51, 85, 101})))
            => outcome \notin {"overflow panic", "index panic"}
    /\ Decoded =>
        LET i0 == before.index_register IN
        /\ (L0 = 15 /\ LKK = 51) =>
                ((ReturnedFault /\ result = BcdFaultMsg)
                    <=> (i0 < 512 \/ i0 + 2 >= Capacity))
        /\ (L0 = 15 /\ LKK = 85) =>
                ((ReturnedFault /\ result = StoreFaultMsg)
                    <=> (i0 < 512 \/ i0 + LX >= Capacity))
        /\ (L0 = 15 /\ LKK = 101) =>
                ((ReturnedFault /\ result = LoadFaultMsg)
                    <=> (i0 + LX >= Capacity))
        /\ (L0 = 13) =>
                ((ReturnedFault /\ result = DrawFaultMsg)
                    <=> (LN >= 1 /\ i0 + LN - 1 >= Capacity))

(* The RAM below 0x200 as Chip8::init leaves it *)
LowImage(a) == IF a < 80 THEN FONTS[a + 1] ELSE 0

ChangedRam ==
    {a \in (DOMAIN ram) \cup (DOMAIN before.ram) :
        RamByte(ram, a) # RamByte(before.ram, a)}

(* C6: no RAM byte below 0x200 ever changes (fonts in [0, 0x50), zero in
   [0x50, 0x200)); only Fx33 and Fx55 write RAM, and only inside
   [0x200, capacity). *)
C6_LowRamImmutable ==
    /\ \A a \in DOMAIN ram : a < 512 => ram[a] = LowImage(a)
    /\ ~Rejected => \A a \in 0..79 : RamByte(ram, a) = FONTS[a + 1]
    /\ (Ran /\ ChangedRam # {}) =>
            /\ Decoded /\ L0 = 15 /\ LKK \in {51, 85}
            /\ \A a \in ChangedRam : 512 <= a /\ a < Capacity

C6_Witness ==
    /\ Executed
    /\ L0 = 15 /\ LKK = 85
    /\ before.index_register = 768
    /\ ChangedRam = {768, 769}

ReturnStep == phase # "idle" /\ phase' = "idle"

StaysFaulted ==
    result \in FaultMsgs =>
        /\ program_counter' = program_counter
        /\ ReturnStep => result' \in FaultMsgs

(* C7 as claimed: once run() has returned a fault, every later call returns
   a fault and PC stays where it is. *)
C7_FaultsForever == [][StaysFaulted]_vars

StaysFaultedWhileCycles ==
    result \in FaultMsgs =>
        /\ program_counter' = program_counter
        /\ ReturnStep => result' = (IF cycles = 0 THEN NoFault ELSE result)

(* C7: once run() has returned a fault, PC stays where it is, and every
   later call whose cycle budget is at least 1 returns that same fault; a
   later call whose budget is 0 (a clock rate below 60) returns no fault. *)
C7_FaultsWhileCycles == [][StaysFaultedWhileCycles]_vars

C7_Witness ==
    /\ faults >= 2
    /\ result \in FaultMsgs
    /\ phase = "idle"

(* Whether the skip instruction last fetched had its condition true *)
SkipTaken ==
    LET v == before.general_registers IN
    \/ L0 = 3 /\ v[LX] = LKK
    \/ L0 = 4 /\ v[LX] # LKK
    \/ L0 = 5 /\ v[LX] = v[LY]
    \/ L0 = 9 /\ v[LX] # v[LY]
    \/ L0 = 14 /\ LKK = 158 /\ before.keyboard[v[LX] % 16]
    \/ L0 = 14 /\ LKK = 161 /\ ~before.keyboard[v[LX] % 16]

IsJump == L0 \in {1, 2, 11} \/ (L0 = 0 /\ LNNN = 238)

(* C8: an instruction that is no jump, call or return and completes
   without fault advances PC by 2, or by 4 when it is a skip whose
   condition is true. *)
C8_PcAdvance ==
    (Executed /\ ~IsJump) =>
        program_counter = before.program_counter + (IF SkipTaken THEN 4 ELSE 2)

C8_Witness ==
    /\ Executed
    /\ L0 = 14 /\ LKK = 158
    /\ before.keyboard[1]
    /\ program_counter = before.program_counter + 4

(* C9: the 00EE matching a 2nnn executed at address a leaves PC = a + 2 and
   SP as it was before that 2nnn, whatever properly nested calls came
   between. *)
C9_CallReturn ==
    (Executed /\ L0 = 0 /\ LNNN = 238) =>
        /\ matched # << >>
        /\ program_counter = matched[1] + 2
        /\ stack_pointer = matched[2]

C9_Witness ==
    /\ Executed /\ L0 = 0 /\ LNNN = 238
    /\ before.stack_pointer = 12
    /\ stack_pointer = 11
    /\ program_counter = matched[1] + 2

(* C10: 7xkk leaves Vx = (Vx + kk) mod 256 and every other register as it
   was, VF included when x is not F. *)
C10_AddByteWraps ==
    (Executed /\ L0 = 7) =>
        /\ general_registers[LX] = (before.general_registers[LX] + LKK) % 256
        /\ \A r \in 0..15 : r # LX => general_registers[r] = before.general_registers[r]
        /\ index_register = before.index_register
        /\ stack_pointer = before.stack_pointer
        /\ stack = before.stack

C10_Witness ==
    /\ Executed /\ L0 = 7 /\ LX = 0 /\ LKK = 2
    /\ before.general_registers[0] = 255
    /\ general_registers[0] = 1
    /\ general_registers[15] = 9

(* C11: 8xy4 with x other than F leaves Vx = (Vx + Vy) mod 256 and VF = 1
   if the sum of the operands, as they were before the instruction,
   exceeds 255, else VF = 0; for every y, F and x included. *)
C11_AddRegCarry ==
    (Executed /\ L0 = 8 /\ LN = 4 /\ LX # 15) =>
        LET a == before.general_registers[LX]
            b == before.general_registers[LY]
        IN  /\ general_registers[LX] = (a + b) % 256
            /\ general_registers[15] = (IF a + b > 255 THEN 1 ELSE 0)

C11_Witness ==
    /\ Executed /\ L0 = 8 /\ LN = 4 /\ LX = 0 /\ LY = 15
    /\ before.general_registers[0] = 255
    /\ before.general_registers[15] = 2
    /\ general_registers[0] = 1
    /\ general_registers[15] = 1

(* The operands and the flag of the last 8xy5 or 8xy7 *)
Minuend == before.general_registers[IF LN = 5 THEN LX ELSE LY]
Subtrahend == before.general_registers[IF LN = 5 THEN LY ELSE LX]
IsSub == Executed /\ L0 = 8 /\ LN \in {5, 7}
NotBorrow == IF Minuend < Subtrahend THEN 0 ELSE 1

(* C12 as claimed: 8xy5 and 8xy7 leave Vx = the difference mod 256 and
   VF = 0 exactly when the subtraction borrows, for every x. *)
C12_SubEveryX ==
    IsSub =>
        /\ general_registers[LX] = (Minuend - Subtrahend) % 256
        /\ general_registers[15] = NotBorrow

(* C12: 8xy5 and 8xy7 leave VF = 0 exactly when the subtraction borrows and
   VF = 1 otherwise, for every x; they leave Vx = the difference mod 256
   for every x other than F, where Vx is VF and holds the flag. *)
C12_SubBorrow ==
    IsSub =>
        /\ general_registers[15] = NotBorrow
        /\ LX # 15 => general_registers[LX] = (Minuend - Subtrahend) % 256

C12_Witness ==
    /\ IsSub /\ LN = 7 /\ LX = 0 /\ LY = 1
    /\ Minuend = 127 /\ Subtrahend = 127
    /\ general_registers[0] = 0
    /\ general_registers[15] = 1

(* The display as the program sees it: a cell is set when it holds the
   foreground colour (line 280) *)
Lit(fb, p) == PixelBytes(fb, p) = foreground_color
Cells == 0..(64 * 32 - 1)
IsDraw == Executed /\ L0 = 13

(* The origin of the last Dxyn, its registers read after the reset of VF,
   and the cells of its clipped rectangle *)
OriginX == (IF LX = 15 THEN 0 ELSE before.general_registers[LX]) % 64
OriginY == (IF LY = 15 THEN 0 ELSE before.general_registers[LY]) % 32
Rectangle ==
    { p \in Cells :
        /\ p % 64 >= OriginX /\ p % 64 < OriginX + 8
        /\ p \div 64 >= OriginY /\ p \div 64 < OriginY + LN }
SpriteBit(p) ==
    Bit(RamByte(before.ram, before.index_register + (p \div 64) - OriginY),
        7 - ((p % 64) - OriginX))

(* The last two iterations executed the same Dxyn with the same I, the same
   origin and the same RAM *)
DrewTwice ==
    /\ IsDraw
    /\ prev # << >>
    /\ prev_opcode = opcode
    /\ prev.index_register = before.index_register
    /\ LX # 15 => prev.general_registers[LX] = before.general_registers[LX]
    /\ LY # 15 => prev.general_registers[LY] = before.general_registers[LY]
    /\ prev.ram = before.ram

(* C13 as claimed: after the second of two identical draws every cell is
   set or unset as it was before the first, and VF = 1. *)
C13_DrawTwiceClears ==
    DrewTwice =>
        /\ \A p \in Cells : Lit(frame_buffer, p) = Lit(prev.frame_buffer, p)
        /\ general_registers[15] = 1

(* C13, asking VF = 1 only when a set sprite bit fell on a cell that was
   unset before the first draw, and VF = 0 otherwise. *)
C13_DrawTwiceRestores ==
    DrewTwice =>
        /\ \A p \in Cells : Lit(frame_buffer, p) = Lit(prev.frame_buffer, p)
        /\ general_registers[15] = 1
            <=> \E p \in Rectangle : SpriteBit(p) = 1 /\ ~Lit(prev.frame_buffer, p)

(* C14: a Dxyn changes no cell outside the rectangle of columns
   [x0, min(x0 + 8, 64)) and rows [y0, min(y0 + n, 32)), x0 and y0 being the
   origin registers mod 64 and mod 32. *)
C14_DrawClips ==
    IsDraw =>
        \A p \in (DOMAIN frame_buffer) \cup (DOMAIN before.frame_buffer) :
            p \notin Rectangle =>
                PixelBytes(frame_buffer, p) = PixelBytes(before.frame_buffer, p)

C14_Witness ==
    /\ IsDraw /\ LN = 1
    /\ OriginX = 60 /\ OriginY = 0
    /\ before.frame_buffer = << >>
    /\ { p \in Cells : Lit(frame_buffer, p) } = {60, 61, 62, 63}

(* clock_hz = 60 * ClockQuotient + ClockRemainder *)
ClockQuotient ==
    IF clock_hz >= 0 THEN clock_hz \div 60
    ELSE 71582788 + ((16 + clock_hz) \div 60)
ClockRemainder ==
    IF clock_hz >= 0 THEN clock_hz % 60 ELSE (16 + clock_hz) % 60

RECURSIVE SumFrom(_, _, _)
SumFrom(seq, first, last) ==
    IF first > last THEN 0 ELSE seq[first] + SumFrom(seq, first + 1, last)

(* C15 as claimed: for every clock rate, every call of run() computes a
   budget; after N calls the budgets sum to floor(N * hz / 60) and the
   remainder carried is in 0..59; each budget is floor(hz / 60) or one more;
   at 500 Hz the first three are 8, 8, 9; any 60 consecutive budgets sum to
   hz. *)
C15_CycleAccumulator ==
    LET n == Len(budgets) IN
    /\ frames = n
    /\ clock_buffer \in 0..59
    /\ SumFrom(budgets, 1, n) = n * ClockQuotient + ((n * ClockRemainder) \div 60)
    /\ \A i \in 1..n : budgets[i] \in {ClockQuotient, ClockQuotient + 1}
    /\ (clock_hz = 500 /\ n >= 3) => SubSeq(budgets, 1, 3) = << 8, 8, 9 >>
    /\ \A k \in 0..(n - 60) :
            SumFrom(budgets, k + 1, k + 60) = 60 * ClockQuotient + ClockRemainder

(* The last iteration fetched an Fx0A; the release latches of a machine *)
IsWait == Decoded /\ L0 = 15 /\ LKK = 10
Latches(m) == { k \in 0..15 : m.key_released[k] }
Blocked == outcome = "blocked"

(* C16: an Fx0A that finds no release latch set changes nothing, PC
   included, ends the frame's execution and returns no fault; a call that
   begins waiting with no latch set ends with PC where it was. *)
C16_WaitChangesNothing ==
    /\ (IsWait /\ Latches(before) = {}) => Blocked
    /\ Blocked =>
        /\ IsWait /\ Latches(before) = {}
        /\ InstructionChangedNothing
        /\ delay_timer = before.delay_timer
        /\ sound_timer = before.sound_timer
        /\ remaining_samples = before.remaining_samples
        /\ phase \in {"end", "idle"}
        /\ result = NoFault /\ faults = 0
    /\ (Blocked /\ entry.waiting /\ Latches(entry.machine) = {}) =>
            program_counter = entry.machine.program_counter

C16_Witness ==
    /\ Blocked /\ phase = "idle"
    /\ frames = 4
    /\ entry.waiting
    /\ clock_hz = 500
    /\ program_counter = 512

(* What an Fx0A does that finds a latch set: the lowest set latch is stored
   in Vx and cleared, and PC advances by 2 *)
LowestLatch == CHOOSE k \in Latches(before) : \A h \in Latches(before) : k <= h
WaitStores ==
    (IsWait /\ Latches(before) # {}) =>
        /\ outcome = "completed"
        /\ general_registers[LX] = LowestLatch
        /\ \A r \in 0..15 : r # LX => general_registers[r] = before.general_registers[r]
        /\ program_counter = before.program_counter + 2
        /\ phase # "idle" => Latches(Machine) = Latches(before) \ {LowestLatch}

(* The last call of run() began waiting on an Fx0A with a latch set *)
WaitingCall ==
    /\ entry # << >>
    /\ entry.waiting
    /\ Latches(entry.machine) # {}

(* C17 as claimed: at every clock rate, the call that follows a release while
   the engine waits on Fx0A executes that Fx0A, which stores the lowest
   latched key in Vx, clears its latch and advances PC by 2. *)
C17_NextCallStores ==
    /\ WaitStores
    /\ (WaitingCall /\ phase = "idle") => outcome # "none"

(* C17: an Fx0A that finds a latch set stores the lowest latched key in Vx,
   clears that latch and advances PC by 2; the call that follows a release
   while the engine waits executes it exactly when its cycle budget is at
   least 1, and with a budget of 0 it leaves PC and the registers alone. *)
C17_StoresWhenCycles ==
    /\ WaitStores
    /\ (WaitingCall /\ phase = "idle") =>
        /\ outcome # "none" <=> cycles >= 1
        /\ cycles = 0 =>
            /\ program_counter = entry.machine.program_counter
            /\ general_registers = entry.machine.general_registers

C17_Witness ==
    /\ WaitingCall
    /\ IsWait /\ outcome = "completed" /\ phase = "loop" /\ cycle = 1
    /\ Latches(before) = {3, 9}
    /\ general_registers[2] = 3
    /\ Latches(Machine) = {9}
    /\ program_counter = entry.machine.program_counter + 2

(* C18 as claimed: every return of run() leaves all 16 release latches
   false. *)
ReturnsWithoutLatches == ReturnStep => \A k \in 0..15 : ~key_released'[k]
C18_LatchesCleared == [][ReturnsWithoutLatches]_vars


(* The value the last Fx15 wrote, the calls of run() begun since, and what is
   left of the value after one decrement per call *)
TimerWritten == timer_set # << >>
TimerAge == frames - timer_set[2]
TimerLeft == IF timer_set[1] > TimerAge THEN timer_set[1] - TimerAge ELSE 0

(* A step that begins a call decrements each timer by one unless it is 0;
   every other step changes the delay timer only by Fx15 and the sound timer
   only by Fx18 *)
TimersTick ==
    /\ frames' \in {frames, frames + 1}
    /\ frames' = frames + 1 =>
        /\ delay_timer' = (IF delay_timer > 0 THEN delay_timer - 1 ELSE 0)
        /\ sound_timer' = (IF sound_timer > 0 THEN sound_timer - 1 ELSE 0)
    /\ (frames' = frames /\ delay_timer' # delay_timer) =>
        /\ opcode' # << >>
        /\ opcode'[1] \div 16 = 15 /\ opcode'[2] = 21
    /\ (frames' = frames /\ sound_timer' # sound_timer) =>
        /\ opcode' # << >>
        /\ opcode'[1] \div 16 = 15 /\ opcode'[2] = 24

TimerReads ==
    /\ delay_timer \in 0..255 /\ sound_timer \in 0..255
    /\ TimerWritten => delay_timer = TimerLeft
    /\ (TimerWritten /\ Executed /\ L0 = 15 /\ LKK = 7) =>
            general_registers[LX] = TimerLeft
    /\ (TimerWritten /\ TimerAge >= timer_set[1]) => delay_timer = 0

(* C19: every call of run(), whatever its cycle budget and whether or not it
   blocks on Fx0A, decrements each of the two timers by exactly 1 if it was
   above 0 and leaves it 0 otherwise; a value v written by Fx15 and not
   rewritten is read by Fx07 m calls later as max(v - m, 0), which is 0 from
   the v-th call on. *)
C19_TimersPerFrame == [][TimersTick]_vars /\ []TimerReads

C19_Witness ==
    /\ Executed /\ L0 = 15 /\ LKK = 7
    /\ clock_hz = 30
    /\ TimerWritten /\ timer_set[1] = 3 /\ TimerAge = 4
    /\ general_registers[LX] = 0
    /\ sound_timer = 1


(* The session of the ROM 12 00; no instruction of it writes RAM *)
SpinSession == ram = LoadImage(WordBytes(SpinRom))

(* C20: with the ROM 12 00 (JP 0x200) and a positive clock rate, no call of
   run() returns a fault or panics, only 1200 is ever fetched, and PC is
   0x200 at the end of every call (and after every instruction). *)
C20_SpinStays ==
    SpinSession =>
        /\ clock_hz > 0
        /\ faults = 0 /\ result = NoFault
        /\ phase # "panicked"
        /\ outcome \in {"none", "completed"}
        /\ opcode \in {<< >>, << 18, 0 >>}
        /\ program_counter = PROGRAM_START
        /\ stack_pointer = 0 /\ index_register = 0

C20_Witness ==
    /\ SpinSession
    /\ phase = "idle" /\ frames = 4
    /\ clock_hz = 500
    /\ budgets = << 8, 8, 9, 8 >>
    /\ outcome = "completed" /\ opcode = << 18, 0 >>
    /\ program_counter = 512


(* What Chip8::init is to leave at an address *)
ImageByte(a) ==
    IF a < 80 THEN FONTS[a + 1]
    ELSE IF a >= 512 /\ a < 512 + Len(rom) THEN rom[a - 512 + 1]
    ELSE 0

JustLoaded == ~Rejected /\ frames = 0 /\ key_events = 0

(* C21: a ROM of more than 0xCA0 bytes is rejected and no engine exists; a
   ROM of at most 0xCA0 bytes, the empty one included, is accepted, and the
   engine then starts with the font at 0..0x4F, the ROM from 0x200 on, every
   other RAM byte 0, PC = 0x200, SP = I = 0, the registers, timers,
   accumulator 0 and the key flags and latches false. *)
C21_Load ==
    /\ Rejected <=> Len(rom) > 3232
    /\ Rejected => (ram = << >> /\ frames = 0 /\ key_events = 0)
    /\ JustLoaded =>
        /\ DOMAIN ram \subseteq 0..(Capacity - 1)
        /\ \A a \in (DOMAIN ram) \cup (0..79) \cup (512..(511 + Len(rom))) :
                RamByte(ram, a) = ImageByte(a)
        /\ program_counter = 512
        /\ stack_pointer = 0 /\ index_register = 0
        /\ \A r \in 0..15 : general_registers[r] = 0
        /\ delay_timer = 0 /\ sound_timer = 0
        /\ clock_buffer = 0
        /\ \A k \in 0..15 : ~keyboard[k] /\ ~key_released[k]

C21_Witness ==
    /\ JustLoaded
    /\ Len(rom) = 3232
    /\ RamByte(ram, 3743) = rom[3232] /\ rom[3232] # 0
    /\ RamByte(ram, 0) = 240 /\ RamByte(ram, 79) = 128
    /\ RamByte(ram, 512) = 18


(* A program counter the data model allows *)
PcAllowed(pc) == pc % 2 = 0 /\ 512 <= pc /\ pc < Capacity

(* A call of run() has returned, and it returned no fault *)
ReturnedNone == phase = "idle" /\ frames > 0 /\ result = NoFault

(* C22 as claimed: after every call of run() that returns no fault, PC is
   even and lies in [0x200, capacity). *)
C22_PcInvariant == ReturnedNone => PcAllowed(program_counter)

(* An iteration that begins with a PC the data model does not allow returns
   the program counter fault and leaves PC as it is *)
BadPcFaults ==
    (phase = "loop" /\ cycle < cycles /\ ~PcAllowed(program_counter)) =>
        /\ outcome' = "fault"
        /\ result' = PcFaultMsg
        /\ opcode' = << >>
        /\ program_counter' = program_counter

PcFetched ==
    /\ program_counter \in 0..65535
    /\ Decoded => PcAllowed(before.program_counter)

(* C22: PC is tested when a cycle begins, not when a call returns: every
   instruction is fetched from an even PC in [0x200, capacity), and a PC
   that a jump, call, return or skip left odd or out of that range, which a
   call may return with without a fault, makes the next executed cycle
   return the program counter fault. *)
C22_PcCheckedAtFetch == []PcFetched /\ [][BadPcFaults]_vars

C22_Witness ==
    /\ ReturnedNone /\ faults = 0
    /\ Executed /\ L0 = 1
    /\ program_counter = 3744


(* The last iteration was an Fx07, and no Fx15 ran in this call before it *)
IsReadTimer == Executed /\ L0 = 15 /\ LKK = 7
WrittenThisCall == TimerWritten /\ timer_set[2] = frames
CallReturned == phase = "idle" /\ frames > 0

(* C23 as claimed: the timers are decremented after the instructions of the
   call: an Fx07 reads the delay timer as the previous call left it, and a
   value v > 0 written by Fx15 during a call is v - 1 when that call
   returns. *)
C23_DecrementAfter ==
    /\ (IsReadTimer /\ ~WrittenThisCall) =>
            general_registers[LX] = entry.machine.delay_timer
    /\ (CallReturned /\ WrittenThisCall /\ timer_set[1] > 0) =>
            delay_timer = timer_set[1] - 1

(* Between the beginning of a call and the beginning of the next, a timer
   changes only by being written: the delay timer by Fx15, the sound timer
   by Fx18, each to the value of Vx *)
WrittenOnly ==
    frames' = frames =>
        /\ delay_timer' # delay_timer =>
            /\ opcode' # << >>
            /\ opcode'[1] \div 16 = 15 /\ opcode'[2] = 21
            /\ delay_timer' = general_registers[opcode'[1] % 16]
        /\ sound_timer' # sound_timer =>
            /\ opcode' # << >>
            /\ opcode'[1] \div 16 = 15 /\ opcode'[2] = 24
            /\ sound_timer' = general_registers[opcode'[1] % 16]

DecrementedFirst ==
    /\ (IsReadTimer /\ ~WrittenThisCall) =>
            general_registers[LX] =
                (IF entry.machine.delay_timer > 0
                 THEN entry.machine.delay_timer - 1 ELSE 0)
    /\ WrittenThisCall => delay_timer = timer_set[1]
    /\ (Executed /\ L0 = 15 /\ LKK = 24) =>
            sound_timer = before.general_registers[LX]

(* C23: the timers are decremented when a call of run() begins, before its
   instructions: an Fx07 reads the delay timer the previous call left, less
   1 if it was above 0, and a value v written by Fx15 or Fx18 during a call
   is still v when that call returns; the next call decrements it. *)
C23_DecrementBefore == []DecrementedFirst /\ [][WrittenOnly]_vars

C23_Witness ==
    /\ IsReadTimer /\ ~WrittenThisCall
    /\ CallReturned
    /\ entry.machine.delay_timer = 2
    /\ general_registers[LX] = 1
    /\ sound_timer = 2


(* C24: a jump lands on its target: 1nnn and 2nnn leave PC = nnn and Bnnn
   leaves PC = nnn + V0, for every nnn from 0 on and every V0; a target that
   is odd or outside [0x200, capacity) makes the next executed cycle return
   the program counter fault with PC on that target. *)
C24_JumpLands ==
    /\ (Decoded /\ L0 = 1) =>
            (Executed /\ program_counter = LNNN)
    /\ (Decoded /\ L0 = 2 /\ before.stack_pointer < 12) =>
            (Executed /\ program_counter = LNNN)
    /\ (Decoded /\ L0 = 11) =>
            (Executed /\ program_counter = LNNN + before.general_registers[0])
    /\ (Ran /\ opcode = << >> /\ prev_opcode # << >> /\ prev_opcode[1] \div 16 = 1) =>
            /\ ReturnedFault /\ result = PcFaultMsg
            /\ program_counter = (prev_opcode[1] % 16) * 256 + prev_opcode[2]


(* C25: Fx29 sets I to (Vx AND 0xF) * 5 for every byte in Vx, so that I is
   one of the font row bases 0, 5, ..., 75 and I + 4 < 0x50. *)
C25_FontBase ==
    (Executed /\ L0 = 15 /\ LKK = 41) =>
        /\ index_register = (before.general_registers[LX] % 16) * 5
        /\ index_register \in { 5 * d : d \in 0..15 }
        /\ index_register + 4 < 80


(* The operands of an 8xyN as the instruction found them, and the bitwise
   combination of two bytes by a rule on bits *)
OperandX == before.general_registers[LX]
OperandY == before.general_registers[LY]
IsAlu(n) == Executed /\ L0 = 8 /\ LN = n
RECURSIVE Bitwise(_, _, _, _)
Bitwise(rule, a, b, width) ==
    IF width = 0 THEN 0
    ELSE (IF <<a % 2, b % 2>> \in rule THEN 1 ELSE 0)
         + 2 * Bitwise(rule, a \div 2, b \div 2, width - 1)
OrRule == { <<0, 1>>, <<1, 0>>, <<1, 1>> }
AndRule == { <<1, 1>> }
XorRule == { <<0, 1>>, <<1, 0>> }

(* C26: VF as flag output wins over VF as destination: after 8Fy1, 8Fy2 and
   8Fy3 VF is 0; after 8Fy4, 8Fy5, 8Fy6, 8Fy7 and 8FyE VF is the carry, the
   not-borrow or the bit shifted out, computed from the operands as they
   were before the instruction; for x other than F, 8xy1/2/3 leave
   Vx = Vx OR/AND/XOR Vy and VF = 0. *)
C26_FlagWins ==
    /\ (IsAlu(1) \/ IsAlu(2) \/ IsAlu(3)) => general_registers[15] = 0
    /\ (IsAlu(1) /\ LX # 15) =>
            general_registers[LX] = Bitwise(OrRule, OperandX, OperandY, 8)
    /\ (IsAlu(2) /\ LX # 15) =>
            general_registers[LX] = Bitwise(AndRule, OperandX, OperandY, 8)
    /\ (IsAlu(3) /\ LX # 15) =>
            general_registers[LX] = Bitwise(XorRule, OperandX, OperandY, 8)
    /\ (IsAlu(4) /\ LX = 15) =>
            general_registers[15] = (IF OperandX + OperandY > 255 THEN 1 ELSE 0)
    /\ (IsAlu(5) /\ LX = 15) =>
            general_registers[15] = (IF OperandX >= OperandY THEN 1 ELSE 0)
    /\ (IsAlu(7) /\ LX = 15) =>
            general_registers[15] = (IF OperandY >= OperandX THEN 1 ELSE 0)
    /\ (IsAlu(6) /\ LX = 15) => general_registers[15] = OperandY % 2
    /\ (IsAlu(14) /\ LX = 15) => general_registers[15] = OperandY \div 128
    /\ (Executed /\ L0 = 8 /\ LN # 0) => general_registers[15] \in {0, 1}

C26_Witness ==
    /\ IsAlu(1) /\ LX = 15 /\ LY = 1
    /\ OperandX = 6 /\ OperandY = 129
    /\ general_registers[15] = 0

(* C27: the shifts take their source from Vy: for x other than F, 8xy6
   leaves Vx = floor(Vy / 2) and VF = bit 0 of Vy, 8xyE leaves
   Vx = (Vy * 2) mod 256 and VF = bit 7 of Vy, Vy being the value before the
   instruction, also when y is F or x; no register other than Vx and VF
   changes. *)
C27_ShiftFromY ==
    /\ (IsAlu(6) /\ LX # 15) =>
        /\ general_registers[LX] = OperandY \div 2
        /\ general_registers[15] = OperandY % 2
    /\ (IsAlu(14) /\ LX # 15) =>
        /\ general_registers[LX] = (OperandY * 2) % 256
        /\ general_registers[15] = OperandY \div 128
    /\ (IsAlu(6) \/ IsAlu(14)) =>
            \A r \in 0..15 :
                r \notin {LX, 15} => general_registers[r] = before.general_registers[r]

C27_Witness ==
    /\ IsAlu(6) /\ LX = 0 /\ LY = 1
    /\ OperandX = 6 /\ OperandY = 129
    /\ general_registers[0] = 64
    /\ general_registers[1] = 129
    /\ general_registers[15] = 1


(* C28: Dxyn is an XOR composite with collision detection: VF is reset,
   the origin is (Vx mod 64, Vy mod 32) as read after the reset, every cell
   of the clipped rectangle becomes its old value XOR its sprite bit, bit 7
   of a sprite byte being the leftmost column, and afterwards VF = 1 if and
   only if some cell of the rectangle was set before the draw and had its
   sprite bit set, and VF = 0 otherwise. *)
C28_DrawXor ==
    IsDraw =>
        /\ \A p \in Rectangle :
                Lit(frame_buffer, p) =
                    (Lit(before.frame_buffer, p) # (SpriteBit(p) = 1))
        /\ general_registers[15] =
                (IF \E p \in Rectangle :
                        Lit(before.frame_buffer, p) /\ SpriteBit(p) = 1
                 THEN 1 ELSE 0)


(* A step after which some cell holds other bytes than before *)
DisplayChanges ==
    \E p \in (DOMAIN frame_buffer) \cup (DOMAIN frame_buffer') :
        PixelBytes(frame_buffer', p) # PixelBytes(frame_buffer, p)

(* Only an executed Dxyn or 00E0 changes a cell *)
DisplayWriters ==
    DisplayChanges =>
        /\ opcode' # << >>
        /\ outcome' \in {"completed", "sync"}
        /\ \/ opcode'[1] \div 16 = 13
           \/ opcode' = << 0, 224 >>

IsClear == Executed /\ opcode = << 0, 224 >>

(* After 00E0 every cell is background and unset, and no register but PC
   has changed *)
Cleared ==
    IsClear =>
        /\ \A p \in Cells :
            /\ PixelBytes(frame_buffer, p) = background_color
            /\ ~Lit(frame_buffer, p)
        /\ general_registers = before.general_registers
        /\ index_register = before.index_register
        /\ stack_pointer = before.stack_pointer
        /\ stack = before.stack
        /\ delay_timer = before.delay_timer
        /\ sound_timer = before.sound_timer
        /\ SameRam
        /\ program_counter = before.program_counter + 2

(* C29: the display is changed only by Dxyn and 00E0: no other instruction,
   no fault and nothing of the per-frame bookkeeping changes a cell; 00E0
   makes every one of the 64 x 32 cells background, that is unset, and
   changes no register other than PC. *)
C29_DisplayWriters == [][DisplayWriters]_vars /\ []Cleared


IsStore == Executed /\ L0 = 15 /\ LKK = 85
IsLoad == Executed /\ L0 = 15 /\ LKK = 101
InRoundTrip == rom \in { WordBytes(r) : r \in RoundTripRoms }

(* C30: Fx55 copies V0..Vx to RAM[I..I+x] and changes no register other
   than I and PC; Fx65 copies RAM[I..I+x] to V0..Vx and changes no RAM byte
   and no register above Vx; each increases I by x + 1; so Fx55 at I = a
   followed by Fx65 at I = a gives back the same V0..Vx. *)
C30_StoreLoad ==
    /\ IsStore =>
        /\ \A r \in 0..LX :
                RamByte(ram, before.index_register + r) = before.general_registers[r]
        /\ \A a \in (DOMAIN ram) \cup (DOMAIN before.ram) :
                a \notin before.index_register..(before.index_register + LX) =>
                    RamByte(ram, a) = RamByte(before.ram, a)
        /\ general_registers = before.general_registers
        /\ stack_pointer = before.stack_pointer /\ stack = before.stack
        /\ delay_timer = before.delay_timer /\ sound_timer = before.sound_timer
        /\ index_register = before.index_register + LX + 1
        /\ program_counter = before.program_counter + 2
    /\ IsLoad =>
        /\ \A r \in 0..LX :
                general_registers[r] = RamByte(before.ram, before.index_register + r)
        /\ \A r \in 0..15 :
                r > LX => general_registers[r] = before.general_registers[r]
        /\ SameRam
        /\ stack_pointer = before.stack_pointer /\ stack = before.stack
        /\ index_register = before.index_register + LX + 1
        /\ program_counter = before.program_counter + 2
    /\ (IsLoad /\ InRoundTrip) =>
        /\ general_registers[0] = rom[2]
        /\ general_registers[LX] = rom[4]
        /\ LX = 15 => general_registers[2] = 7

C30_Witness ==
    /\ IsLoad /\ InRoundTrip /\ LX = 1
    /\ before.general_registers[0] = 17 /\ before.general_registers[1] = 34
    /\ general_registers[0] = 255 /\ general_registers[1] = 1
    /\ general_registers[2] = 51
    /\ index_register = 770


IsBcd == Executed /\ L0 = 15 /\ LKK = 51

(* C31: Fx33 with a valid I writes three decimal digits h, t, o, each in
   0..9 and h at most 2, to RAM[I], RAM[I+1], RAM[I+2] with
   100 h + 10 t + o = Vx, for every byte in Vx, and leaves I, every
   register and every other RAM byte as they were. *)
C31_Bcd ==
    IsBcd =>
        LET i0 == before.index_register
            h == RamByte(ram, i0)
            t == RamByte(ram, i0 + 1)
            o == RamByte(ram, i0 + 2)
        IN  /\ i0 >= 512 /\ i0 + 2 < Capacity
            /\ h \in 0..2 /\ t \in 0..9 /\ o \in 0..9
            /\ 100 * h + 10 * t + o = before.general_registers[LX]
            /\ index_register = i0
            /\ general_registers = before.general_registers
            /\ stack_pointer = before.stack_pointer /\ stack = before.stack
            /\ delay_timer = before.delay_timer /\ sound_timer = before.sound_timer
            /\ \A a \in (DOMAIN ram) \cup (DOMAIN before.ram) :
                    a \notin i0..(i0 + 2) => RamByte(ram, a) = RamByte(before.ram, a)
            /\ program_counter = before.program_counter + 2

C31_Witness ==
    /\ IsBcd
    /\ before.general_registers[LX] = 255
    /\ before.index_register = 768
    /\ RamByte(ram, 768) = 2 /\ RamByte(ram, 769) = 5 /\ RamByte(ram, 770) = 5
    /\ general_registers[15] = 9


IsSound == Executed /\ L0 = 15 /\ LKK = 24
SoundValue == before.general_registers[LX]

(* The last two iterations ran the same Fx18 in the same call of run() *)
SoundTwice ==
    /\ IsSound /\ cycle >= 2
    /\ prev_opcode = opcode
    /\ SoundValue > 1
    /\ before.remaining_samples # << >>

(* C32: Fx18 copies Vx into sound_timer; with Vx <= 1 the remaining-sample
   counter is left as it is; with Vx > 1 it is set to Vx * 800 less the
   samples elapsed in the current frame, which are between 0 and 800 and do
   not decrease with the cycle at which the Fx18 executes, so that the
   counter lies in [(Vx - 1) * 800, Vx * 800]. *)
C32_SoundSamples ==
    /\ IsSound =>
        /\ sound_timer = SoundValue
        /\ general_registers = before.general_registers
        /\ SoundValue <= 1 => remaining_samples = before.remaining_samples
        /\ SoundValue > 1 =>
            /\ remaining_samples # << >>
            /\ SoundValue * 800 - remaining_samples[1] \in 0..800
            /\ remaining_samples[1] >= (SoundValue - 1) * 800
            /\ remaining_samples[1] <= SoundValue * 800
    /\ SoundTwice => remaining_samples[1] <= before.remaining_samples[1]

C32_Witness ==
    /\ SoundTwice
    /\ clock_hz = 500
    /\ SoundValue = 255
    /\ remaining_samples[1] < before.remaining_samples[1]
    /\ remaining_samples[1] > 254 * 800



(* After a Dxyn the program counter is 2 further; with draw sync the loop was
   left and the call holds this one draw, without it the loop goes on *)
DrawEnds ==
    /\ is_drawsync => draws <= 1
    /\ outcome = "sync" => IsDraw /\ is_drawsync
    /\ IsDraw =>
        /\ program_counter = before.program_counter + 2
        /\ draws >= 1
    /\ (IsDraw /\ is_drawsync) =>
        /\ outcome = "sync"
        /\ phase \in {"end", "idle"}
        /\ cycle < cycles
    /\ (IsDraw /\ ~is_drawsync) =>
        /\ outcome = "completed"
        /\ phase \in {"loop", "idle"}
        /\ cycle >= 1

(* No iteration follows a synced draw in its call; a draw under draw sync is
   the first of its call; the count of draws restarts only where a call of
   run() begins and decrements the timers; an unsynced draw with budget left
   is followed by the next iteration of the same call *)
DrawSeparated ==
    /\ outcome = "sync" =>
        /\ opcode' = opcode /\ before' = before
        /\ cycle' = cycle \/ frames' = frames + 1
    /\ (is_drawsync /\ draws' = draws + 1) => draws = 0
    /\ draws' # draws =>
        \/ draws' = draws + 1 /\ frames' = frames /\ opcode'[1] \div 16 = 13
        \/ /\ draws' = 0
           /\ frames' = frames + 1
           /\ delay_timer' = TimerTick(delay_timer)
           /\ sound_timer' = TimerTick(sound_timer)
    /\ (IsDraw /\ ~is_drawsync /\ phase = "loop" /\ cycle < cycles) =>
        /\ frames' = frames
        /\ before'.program_counter = program_counter
        /\ before'.frame_buffer = frame_buffer

(* C33: with draw sync a Dxyn that completes advances PC by 2 and ends the
   frame's execution, so a call of run() executes at most one Dxyn and two
   successive draws are separated by the beginning of a call (a timer
   decrement); without draw sync Dxyn advances PC by 2 and execution
   continues within the frame. *)
C33_DrawSync == []DrawEnds /\ [][DrawSeparated]_vars

(* The third draw in a row, each in a call of its own, budget left unused *)
C33_Witness ==
    /\ IsDraw /\ is_drawsync
    /\ frames = 3 /\ draws = 1 /\ cycle = 0 /\ cycles = 4
    /\ prev_opcode # << >> /\ prev_opcode[1] \div 16 = 13
    /\ prev.program_counter = before.program_counter - 2


(* The call of run() has returned *)
Returned == phase = "idle" /\ frames >= 1
EarlyExit == outcome \in {"fault", "blocked", "sync"}

(* The instructions the last call executed: the iterations that reached
   line 399, and the synced draw that left the loop behind its own increment *)
ExecutedInCall == cycle + (IF outcome = "sync" THEN 1 ELSE 0)

(* The budget of call i when no cycle was ever carried over or lost *)
BudgetOf(i) == ((i * clock_hz) \div 60) - (((i - 1) * clock_hz) \div 60)
SmallRate == clock_hz \in 0..24000

BudgetKept ==
    /\ phase \in {"loop", "end"} => cycle <= cycles
    /\ Returned =>
        /\ Len(budgets) = frames
        /\ cycles = budgets[frames]
        /\ ExecutedInCall <= cycles
        /\ ~EarlyExit => ExecutedInCall = cycles
    /\ (SmallRate /\ phase # "panicked") =>
        /\ \A i \in 1..Len(budgets) : budgets[i] = BudgetOf(i)
        /\ clock_buffer = (Len(budgets) * clock_hz) % 60

(* Only the beginning of a call changes the accumulator and the budget, and
   by the clock rate and the remainder alone *)
BudgetSteps ==
    (clock_buffer' # clock_buffer \/ cycles' # cycles \/ budgets' # budgets) =>
        /\ phase = "idle" /\ frames' = frames + 1
        /\ cycles' = ClockCycles
        /\ clock_buffer' = ClockRest
        /\ budgets' = Append(budgets, ClockCycles)

(* C34: a call of run() executes at most its budget of instructions, and
   exactly the budget unless it ended on a fault, a blocked Fx0A or a synced
   draw; the cycles such an exit leaves are discarded: the accumulator's
   remainder and every later budget are what they are without the exit. *)
C34_BudgetUse == []BudgetKept /\ [][BudgetSteps]_vars

(* 500 Hz, four calls that each stopped at once on the Fx0A: the budgets are
   8, 8, 9, 8 all the same *)
C34_Witness ==
    /\ Returned /\ outcome = "blocked"
    /\ clock_hz = 500
    /\ budgets = << 8, 8, 9, 8 >>
    /\ ExecutedInCall = 0
    /\ clock_buffer = 20


SamplesWritten == audio.written # << >>
CalledBack == audio.last # << >>

(* C35: under every interleaving of engine writes and audio callbacks, a
   callback with request r that read the counter at c emits exactly
   max(0, min(r, c)) samples, and the samples emitted between one engine
   write of s and the next never exceed s, however long the audio side
   keeps running. *)
C35_SharedCounter ==
    /\ CalledBack =>
        LET r == audio.last[1]
            c == audio.last[2]
            least == IF r < c THEN r ELSE c
        IN  audio.last[3] = (IF least > 0 THEN least ELSE 0)
    /\ SamplesWritten => audio.emitted <= audio.written[1]

====
